---- MODULE Spec2Model ----
(***************************************************************************)
(* The outbound transaction lifecycle of the ERC20 payment driver:         *)
(* wallet.rs (nonce manager, gas bump, send_transactions) and ethereum.rs  *)
(* (approve_multi_payment_contract, create_dao_entity).                    *)
(*                                                                         *)
(* Gas prices are integers in wei.  The preferred-price ladders of         *)
(* ethereum.rs are float gwei with two decimals; here they are written in  *)
(* hundredths of gwei and convert_float_gas_to_u256 turns them into the    *)
(* unit of the record prices with a gwei scaled down to 100 wei, so that   *)
(* every product stays inside TLC's 32-bit integers.                       *)
(* A tx hash is the pair <<tx_id, gas_price>>: the signed bytes of a       *)
(* record differ exactly when the gas price differs.  tmp_onchain_txs, a   *)
(* ';'-joined string of hashes, is the sequence of its hashes (None and    *)
(* the empty sequence coincide; s + ";" + h is Append(s, h)).              *)
(* One sender and one network: every record shares (sender, network).      *)
(***************************************************************************)
EXTENDS Integers, Sequences, FiniteSets, TLC

VARIABLES
    gas_price_method,   \* env POLYGON_GAS_PRICE_METHOD
    polygon_priority,   \* env POLYGON_PRIORITY
    store,              \* the persistent record store: tx_id -> TransactionEntity
    ticks,              \* number of send passes started so far
    pc,                 \* position of each send pass
    txs,                \* remaining list of record snapshots of each send pass
    tx,                 \* the snapshot the pass is working on
    raw_tx,             \* gas_price of the raw_tx the pass is working on
    current_max_gas_price, \* the per-pass tracked gas price
    send_result,        \* what send_tx returned to the pass
    sent_log,           \* history: <<tx_id, gas_price>> of every send_tx call of the pass
    rejected,           \* history: price of the record's broadcast the node called already known
    skipped,            \* history: the tracked price that made the guard skip the record
    cancelled,          \* history: the price persisted for the record by a pass dropped before its broadcast
    cpc,                \* position of the record creation in flight
    cnonce,             \* the nonce the record creation in flight has resolved
    cnet,               \* <<pending, latest>> transaction counts the creation in flight read
    chain_query,        \* the arguments and node answers of the last get_tx_on_chain_status
    chain_status,       \* the TransactionChainStatus it returned
    wpc,                \* position of init_wallet / approve_multi_payment_contract
    wread,              \* what init_wallet has read: balances, contract address, allowance
    wqueries,           \* number of allowance queries made
    welapsed,           \* start_time.elapsed(), in units of 10 s
    wresult,            \* what init_wallet returned
    client_map,         \* WEB3_CLIENT_MAP: RPC URL -> client
    gpc,                \* position of each get_client call
    gurl,               \* the RPC URL of each get_client call
    gclient,            \* the client each get_client call returned
    gguard,             \* the guard of WEB3_CLIENT_MAP each get_client call holds
    ginserts,           \* history: the clients inserted under each RPC URL
    mt_call,            \* the arguments of the last prepare_erc20_multi_transfer
    mt_tx,              \* the call it encoded
    gas_call,           \* the record and the eth_gasPrice answer of a price resolution
    gas_result,         \* the gas price it resolved
    vt_call,            \* the hash and the node's answer of the last verify_tx
    vt_result,          \* what verify_tx returned
    eg_call,            \* the record and the node's answer of the last has_enough_eth_for_gas
    eg_result           \* what has_enough_eth_for_gas returned

config == <<gas_price_method, polygon_priority>>
passvars == <<ticks, pc, txs, tx, raw_tx, current_max_gas_price, send_result, sent_log>>
createvars == <<cpc, cnonce, cnet>>
queryvars == <<chain_query, chain_status>>
initvars == <<wpc, wread, wqueries, welapsed, wresult>>
clientvars == <<client_map, gpc, gurl, gclient, gguard, ginserts>>
multivars == <<mt_call, mt_tx>>
gasvars == <<gas_call, gas_result>>
verifyvars == <<vt_call, vt_result>>
fundsvars == <<eg_call, eg_result>>
facadevars == <<initvars, clientvars, multivars, gasvars, verifyvars, fundsvars>>
vars == <<config, store, passvars, rejected, skipped, cancelled, createvars, queryvars, facadevars>>

(***************************** bounds **************************************)
\* number of records in the store
NumRecords == 2
\* number of send passes the driver starts
MaxTicks == 2
\* largest transaction count the node reports
MaxNetworkNonce == 2

(*************************** program constants *****************************)
NoPrice == -1
NoNonce == -1
RESENT_LIMIT == 5
min_bump_num == 111
min_bump_den == 100

POLYGON_PREFERRED_GAS_PRICES_SLOW == <<0, 1001, 1501, 2001, 2501, 3001>>
POLYGON_PREFERRED_GAS_PRICES_FAST == <<0, 3001, 4001>>
POLYGON_PREFERRED_GAS_PRICES_EXPRESS == <<0, 6001, 10001>>

WeiPerCentiGwei == 1
convert_float_gas_to_u256(f) == f * WeiPerCentiGwei

TxIds == 1..NumRecords
Passes == {1, 2}

\* gas_price / max_gas_price a caller hands to make_transfer, and eth_gasPrice answers
StartPrices == {7, 1001}
MaxPrices == {NoPrice, 1200}
NetworkPrices == {7, 1501}

TerminalStatuses == {"Confirmed", "Failed", "NonceTooLow"}
SendableStatuses == {"Created", "ResendAndBumpGas", "ErrorSent"}

NoHash == <<>>
\* concurrent callers of get_client, and the RPC URLs of the networks they use
NumTasks == 3
Tasks == 1..NumTasks
RpcUrls == {"MAINNET_GETH_ADDR", "POLYGON_GETH_ADDR"}
NoUrl == ""
NoClient == 0

\* U256::max_value() scaled down, and the allowance threshold derived from it
U256Max == 7
GLM_MINIMUM_ALLOWANCE == U256Max \div 2
\* delay before the first allowance poll, between polls, and the ceiling of
\* the wait, in units of 10 s
ApproveGrace == 3
ApprovePollDelay == 1
ApproveCeiling == 50
InsufficientGlm == "Insufficient GLM"
InsufficientEth == "Insufficient ETH"
RpcFailed == "rpc error"
NotRead == -1
NothingRead == [glm |-> NotRead, eth |-> NotRead, contract |-> NotRead, allowance |-> NotRead]
NoQuery == <<>>
NoStatus == <<>>
EmptyHash == <<0, 0>>
TxHash(id, price) == <<id, price>>

JsonParseFailed == "Json parse failed, unrecoverable error"
NonceTooLowMsg == "nonce too low"
AlreadyKnownMsg == "already known"
OtherErrorMsg == "connection refused"
SendResults == {"ok", NonceTooLowMsg, AlreadyKnownMsg, OtherErrorMsg}

(************************ the record (TransactionEntity) *******************)
\* serde_json::to_string(&raw_tx): the blob carries the raw transaction's gas price
EncodeRawTx(gas_price) == [valid |-> TRUE, gas_price |-> gas_price]
\* a blob serde_json::from_str rejects
CorruptBlob == [valid |-> FALSE, gas_price |-> NoPrice]

create_dao_entity(id, nonce, starting_gas_price, max_gas_price, encoded_raw_tx, tx_type) ==
    [ tx_id              |-> id,
      nonce              |-> nonce,
      max_gas_price      |-> max_gas_price,
      starting_gas_price |-> starting_gas_price,
      current_gas_price  |-> NoPrice,
      encoded            |-> encoded_raw_tx,
      status             |-> "Created",
      tx_type            |-> tx_type,
      signature          |-> NoPrice,
      tmp_onchain_txs    |-> <<>>,
      final_tx           |-> NoHash,
      last_error_msg     |-> "",
      resent_times       |-> 0 ]

(***************************** gas policy **********************************)
PolygonLadder ==
    CASE polygon_priority = "express" -> POLYGON_PREFERRED_GAS_PRICES_EXPRESS
      [] polygon_priority = "fast"    -> POLYGON_PREFERRED_GAS_PRICES_FAST
      [] OTHER                        -> POLYGON_PREFERRED_GAS_PRICES_SLOW

get_polygon_starting_price == PolygonLadder[2]

\* a search that takes the highest rung above min_gas
FindStepHighest(ladder, min_gas) ==
    LET hits == {i \in 1..Len(ladder) : convert_float_gas_to_u256(ladder[i]) > min_gas}
    IN  IF hits = {} THEN min_gas
        ELSE convert_float_gas_to_u256(ladder[CHOOSE i \in hits : \A j \in hits : i >= j])

\* .iter().map(convert).find(|step| step > min_gas).unwrap_or(min_gas)
FindStep(ladder, min_gas) ==
    LET hits == {i \in 1..Len(ladder) : convert_float_gas_to_u256(ladder[i]) > min_gas}
    IN  IF hits = {} THEN min_gas
        ELSE convert_float_gas_to_u256(ladder[CHOOSE i \in hits : \A j \in hits : i <= j])

\* a bump that divides where the code multiplies
bump_gas_price_inverted(gas_in_gwei) ==
    (gas_in_gwei * min_bump_den) \div min_bump_num

bump_gas_price(gas_in_gwei) ==
    LET min_gas == (gas_in_gwei * min_bump_num) \div min_bump_den
    IN  IF gas_price_method = "dynamic" THEN min_gas
        ELSE FindStep(PolygonLadder, min_gas)

\* a resolution that prices every send from the node's gas price, stored or not
ResolveGasPriceFresh(t, network_price) ==
    LET minimum_price == t.starting_gas_price
        new_gas_price == IF network_price > minimum_price
                         THEN network_price ELSE minimum_price
    IN  IF t.max_gas_price # NoPrice /\ t.max_gas_price < new_gas_price
        THEN t.max_gas_price ELSE new_gas_price

\* a resolution whose first price ignores max_gas_price
ResolveGasPriceUncapped(t, network_price) ==
    IF t.current_gas_price # NoPrice
    THEN IF t.status = "ResendAndBumpGas"
         THEN bump_gas_price(t.current_gas_price)
         ELSE t.current_gas_price
    ELSE IF network_price > t.starting_gas_price
         THEN network_price ELSE t.starting_gas_price

\* a resolution that lowers a bumped price to max_gas_price
ResolveGasPriceCappedBump(t, network_price) ==
    IF t.current_gas_price # NoPrice
    THEN IF t.status = "ResendAndBumpGas"
         THEN IF t.max_gas_price # NoPrice /\ t.max_gas_price < bump_gas_price(t.current_gas_price)
              THEN t.max_gas_price
              ELSE bump_gas_price(t.current_gas_price)
         ELSE t.current_gas_price
    ELSE IF t.starting_gas_price # NoPrice
         THEN LET minimum_price == t.starting_gas_price
                  new_gas_price == IF network_price > minimum_price
                                   THEN network_price ELSE minimum_price
              IN  IF t.max_gas_price # NoPrice /\ t.max_gas_price < new_gas_price
                  THEN t.max_gas_price ELSE new_gas_price
         ELSE convert_float_gas_to_u256(get_polygon_starting_price)

\* a resolution whose first price is the node's gas price alone
ResolveGasPriceNetworkOnly(t, network_price) ==
    IF t.current_gas_price # NoPrice
    THEN IF t.status = "ResendAndBumpGas"
         THEN bump_gas_price(t.current_gas_price)
         ELSE t.current_gas_price
    ELSE network_price

\* lines 417-477 of send_transactions: the gas price of this send of record t
ResolveGasPrice(t, network_price) ==
    IF t.current_gas_price # NoPrice
    THEN IF t.status = "ResendAndBumpGas"
         THEN bump_gas_price(t.current_gas_price)
         ELSE t.current_gas_price
    ELSE IF t.starting_gas_price # NoPrice
         THEN LET minimum_price == t.starting_gas_price
                  new_gas_price == IF network_price > minimum_price
                                   THEN network_price ELSE minimum_price
              IN  IF t.max_gas_price # NoPrice /\ t.max_gas_price < new_gas_price
                  THEN t.max_gas_price ELSE new_gas_price
         ELSE convert_float_gas_to_u256(get_polygon_starting_price)

\* a guard that skips the cheaper record instead of the dearer one
SkipGuardLower(new_gas_price, max_so_far) ==
    new_gas_price < max_so_far /\ max_so_far # 0

\* a guard that lets every record through
SkipGuardNever(new_gas_price, max_so_far) ==
    FALSE /\ new_gas_price > max_so_far

\* line 479: the record is skipped in this pass
SkipGuard(new_gas_price, max_so_far) ==
    new_gas_price > max_so_far /\ max_so_far # 0

(************************* persistence adapter *****************************)
update_tx_fields(s, id, encoded, signature, gas_price) ==
    [s EXCEPT ![id].encoded = encoded,
              ![id].signature = signature,
              ![id].current_gas_price = gas_price]

transaction_sent(s, id, hashes, gas_price) ==
    [s EXCEPT ![id].tmp_onchain_txs = hashes,
              ![id].current_gas_price = gas_price,
              ![id].status = "Sent"]

transaction_failed_send(s, id, new_resent_count, msg) ==
    [s EXCEPT ![id].status = "ErrorSent",
              ![id].resent_times = new_resent_count,
              ![id].last_error_msg = msg]

transaction_failed_with_nonce_too_low(s, id, msg) ==
    [s EXCEPT ![id].status = "NonceTooLow",
              ![id].last_error_msg = msg]

transaction_confirmed_and_failed(s, id, hash, msg) ==
    [s EXCEPT ![id].status = "Failed",
              ![id].final_tx = hash,
              ![id].last_error_msg = msg]

transaction_confirmed(s, id, hash) ==
    [s EXCEPT ![id].status = "Confirmed",
              ![id].final_tx = hash]

retry_send_transaction(s, id, bump) ==
    [s EXCEPT ![id].status = IF bump THEN "ResendAndBumpGas" ELSE "Created"]

insert_raw_transaction(s, entity) == Append(s, entity)

\* the highest nonce of an unfinished record, NoPrice (None) when there is none
get_last_db_nonce_pending(s) ==
    LET used == {s[i].nonce : i \in {j \in DOMAIN s : s[j].status \notin TerminalStatuses}}
    IN  IF used = {} THEN NoNonce
        ELSE CHOOSE n \in used : \A m \in used : m <= n

(****************************** nonce manager ******************************)
\* lines 93-111: the local claim is one past the highest unfinished nonce
get_next_nonce_info(s, network_nonce_pending, network_nonce_latest) ==
    [ network_nonce_pending |-> network_nonce_pending,
      network_nonce_latest  |-> network_nonce_latest,
      db_nonce_pending      |-> IF get_last_db_nonce_pending(s) = NoNonce THEN NoNonce
                                ELSE get_last_db_nonce_pending(s) + 1 ]

\* a policy that takes the higher of the local claim and the pending count
get_next_nonce_highest(s, network_nonce_pending, network_nonce_latest) ==
    LET nonce_info == get_next_nonce_info(s, network_nonce_pending, network_nonce_latest)
    IN  IF nonce_info.db_nonce_pending > nonce_info.network_nonce_pending
        THEN nonce_info.db_nonce_pending
        ELSE nonce_info.network_nonce_pending

\* lines 113-131
get_next_nonce(s, network_nonce_pending, network_nonce_latest) ==
    LET nonce_info == get_next_nonce_info(s, network_nonce_pending, network_nonce_latest)
    IN  IF nonce_info.db_nonce_pending # NoNonce
        THEN nonce_info.db_nonce_pending
        ELSE nonce_info.network_nonce_pending

(****************************** initial state ******************************)
StartMax == {d \in StartPrices \X MaxPrices : d[2] = NoPrice \/ d[1] <= d[2]}

\* what make_transfer / make_multi_transfer hand to the store: the starting
\* price already capped by max_gas_price, the blob holding the starting price
FreshRecords(id, nonce) ==
    { create_dao_entity(id, nonce, d[1], d[2], EncodeRawTx(d[1]), "Transfer") : d \in StartMax }

\* a record whose stored blob no longer deserializes
CorruptRecords(id) ==
    { create_dao_entity(id, id, sp, NoPrice, CorruptBlob, "Transfer") :
        sp \in {p \in StartPrices : p > 0} }

\* a record left by earlier runs of the driver: broadcast once at its starting
\* price sp, marked stalled, bumped, and answered "nonce too low" on each of
\* RESENT_LIMIT - 1 later sends
AgedRecords(id) ==
    { [ create_dao_entity(id, id, sp, NoPrice, EncodeRawTx(bump_gas_price(sp)), "Transfer")
          EXCEPT !.current_gas_price = bump_gas_price(sp),
                 !.signature = bump_gas_price(sp),
                 !.status = "ErrorSent",
                 !.tmp_onchain_txs = <<TxHash(id, sp)>>,
                 !.last_error_msg = NonceTooLowMsg,
                 !.resent_times = RESENT_LIMIT - 1 ] :
        sp \in {p \in StartPrices : p > 0} }

StoredRecords(id) == FreshRecords(id, id) \cup CorruptRecords(id) \cup AgedRecords(id)

InitIdle ==
    /\ ticks = 0
    /\ pc = [p \in Passes |-> "idle"]
    /\ txs = [p \in Passes |-> <<>>]
    /\ tx = [p \in Passes |-> 0]
    /\ raw_tx = [p \in Passes |-> NoPrice]
    /\ current_max_gas_price = [p \in Passes |-> 0]
    /\ send_result = [p \in Passes |-> ""]
    /\ sent_log = [p \in Passes |-> <<>>]
    /\ cpc = "idle"
    /\ cnonce = 0
    /\ cnet = <<0, 0>>
    /\ chain_query = NoQuery
    /\ chain_status = NoStatus
    /\ wpc = "idle"
    /\ wread = NothingRead
    /\ wqueries = 0
    /\ welapsed = 0
    /\ wresult = ""
    /\ client_map = [u \in RpcUrls |-> NoClient]
    /\ gpc = [t \in Tasks |-> "idle"]
    /\ gurl = [t \in Tasks |-> NoUrl]
    /\ gclient = [t \in Tasks |-> NoClient]
    /\ gguard = [t \in Tasks |-> "none"]
    /\ ginserts = [u \in RpcUrls |-> <<>>]
    /\ mt_call = NoQuery
    /\ mt_tx = NoQuery
    /\ gas_call = NoQuery
    /\ gas_result = NoPrice
    /\ vt_call = NoQuery
    /\ vt_result = NoQuery
    /\ eg_call = NoQuery
    /\ eg_result = NoQuery

\* the driver starts on a store of NumRecords records with nonces
\* 1..NumRecords: the oldest in any shape, the later ones newly created
\* without a price cap
Init ==
    /\ gas_price_method \in {"static", "dynamic"}
    /\ polygon_priority \in {"slow", "express"}
    /\ gas_price_method = "dynamic" => polygon_priority = "slow"
    /\ store \in {s \in [TxIds -> UNION {StoredRecords(i) : i \in TxIds}] :
                     /\ s[1] \in StoredRecords(1)
                     /\ \A i \in TxIds \ {1} :
                           /\ s[i] \in FreshRecords(i, i)
                           /\ s[i].max_gas_price = NoPrice}
    /\ rejected = [i \in TxIds |-> NoPrice]
    /\ skipped = [i \in TxIds |-> NoPrice]
    /\ cancelled = [i \in TxIds |-> NoPrice]
    /\ InitIdle

(******************************* send pass *********************************)
\* the lists a caller can hand to send_transactions: snapshots of sendable
\* records, in any order
Batches ==
    LET ids == {i \in DOMAIN store : store[i].status \in SendableStatuses}
    IN  {b \in UNION {[1..n -> ids] : n \in 1..Cardinality(ids)} :
            \A i, j \in DOMAIN b : i # j => b[i] # b[j]}

\* `continue`, or the end of the loop body: on to the next record of the list
Continue(p) ==
    /\ txs' = [txs EXCEPT ![p] = Tail(txs[p])]
    /\ tx' = [tx EXCEPT ![p] = 0]
    /\ raw_tx' = [raw_tx EXCEPT ![p] = NoPrice]
    /\ send_result' = [send_result EXCEPT ![p] = ""]
    /\ pc' = [pc EXCEPT ![p] = "loop"]

\* the pass returns: its locals are dropped
Return(p) ==
    /\ pc' = [pc EXCEPT ![p] = "idle"]
    /\ txs' = [txs EXCEPT ![p] = <<>>]
    /\ tx' = [tx EXCEPT ![p] = 0]
    /\ raw_tx' = [raw_tx EXCEPT ![p] = NoPrice]
    /\ send_result' = [send_result EXCEPT ![p] = ""]
    /\ current_max_gas_price' = [current_max_gas_price EXCEPT ![p] = 0]
    /\ sent_log' = [sent_log EXCEPT ![p] = <<>>]

\* lines 386-393: send_transactions is called with the list b of record ids
Begin(p, b) ==
    /\ pc[p] = "idle"
    /\ txs' = [txs EXCEPT ![p] = [i \in DOMAIN b |-> store[b[i]]]]
    /\ pc' = [pc EXCEPT ![p] = "loop"]
    /\ current_max_gas_price' = [current_max_gas_price EXCEPT ![p] = 0]
    /\ sent_log' = [sent_log EXCEPT ![p] = <<>>]
    /\ UNCHANGED <<config, store, tx, raw_tx, send_result, rejected, skipped, createvars, queryvars, facadevars, cancelled>>

\* a send pass is started with any list of sendable records
StartPass(p) ==
    /\ ticks < MaxTicks
    /\ ticks' = ticks + 1
    /\ \E b \in Batches : Begin(p, b)

\* a pass that gives up at the first blob that does not deserialize
PassDeserializeFailedAbort(p) ==
    /\ pc[p] = "loop" /\ txs[p] # <<>>
    /\ ~Head(txs[p]).encoded.valid
    /\ store' = transaction_confirmed_and_failed(store, Head(txs[p]).tx_id,
                                                  EmptyHash, JsonParseFailed)
    /\ Return(p)
    /\ UNCHANGED <<config, ticks, sent_log, rejected, skipped, createvars, queryvars, facadevars, cancelled>>

\* lines 394-413: the blob does not deserialize
PassDeserializeFailed(p) ==
    /\ pc[p] = "loop" /\ txs[p] # <<>>
    /\ ~Head(txs[p]).encoded.valid
    /\ store' = transaction_confirmed_and_failed(store, Head(txs[p]).tx_id,
                                                  EmptyHash, JsonParseFailed)
    /\ Continue(p)
    /\ UNCHANGED <<config, ticks, current_max_gas_price, sent_log, rejected, skipped, createvars, queryvars, facadevars, cancelled>>

\* a skip that stores the price it resolved before moving on
PassSkipPersisting(p) ==
    /\ pc[p] = "loop" /\ txs[p] # <<>>
    /\ Head(txs[p]).encoded.valid
    /\ \E network_price \in NetworkPrices :
          LET new_gas_price == ResolveGasPrice(Head(txs[p]), network_price)
          IN  /\ SkipGuard(new_gas_price, current_max_gas_price[p])
              /\ store' = update_tx_fields(store, Head(txs[p]).tx_id,
                                            EncodeRawTx(new_gas_price),
                                            new_gas_price, new_gas_price)
    /\ skipped' = [skipped EXCEPT ![Head(txs[p]).tx_id] = current_max_gas_price[p]]
    /\ Continue(p)
    /\ UNCHANGED <<config, ticks, current_max_gas_price, sent_log, rejected, createvars, queryvars, facadevars, cancelled>>

\* lines 415-487: price resolved, the guard of line 479 skips the record
PassSkip(p) ==
    /\ pc[p] = "loop" /\ txs[p] # <<>>
    /\ Head(txs[p]).encoded.valid
    /\ \E network_price \in NetworkPrices :
          SkipGuard(ResolveGasPrice(Head(txs[p]), network_price), current_max_gas_price[p])
    /\ skipped' = [skipped EXCEPT ![Head(txs[p]).tx_id] = current_max_gas_price[p]]
    /\ Continue(p)
    /\ UNCHANGED <<config, store, ticks, current_max_gas_price, sent_log, rejected, createvars, queryvars, facadevars, cancelled>>

\* the code persists nothing before the broadcast
PassPersistNothing(p) ==
    /\ pc[p] = "loop" /\ txs[p] # <<>>
    /\ Head(txs[p]).encoded.valid
    /\ \E network_price \in NetworkPrices :
          LET t == Head(txs[p])
              new_gas_price == ResolveGasPrice(t, network_price)
          IN  /\ ~SkipGuard(new_gas_price, current_max_gas_price[p])
              /\ current_max_gas_price' = [current_max_gas_price EXCEPT ![p] = new_gas_price]
              /\ raw_tx' = [raw_tx EXCEPT ![p] = new_gas_price]
              /\ tx' = [tx EXCEPT ![p] = t]
    /\ pc' = [pc EXCEPT ![p] = "send"]
    /\ UNCHANGED <<config, store, ticks, txs, send_result, sent_log, rejected, skipped, createvars, queryvars, facadevars, cancelled>>

\* a pass that forgets to track the price of the record it lets through
PassPersistUntracked(p) ==
    /\ pc[p] = "loop" /\ txs[p] # <<>>
    /\ Head(txs[p]).encoded.valid
    /\ \E network_price \in NetworkPrices :
          LET t == Head(txs[p])
              new_gas_price == ResolveGasPrice(t, network_price)
          IN  /\ ~SkipGuard(new_gas_price, current_max_gas_price[p])
              /\ raw_tx' = [raw_tx EXCEPT ![p] = new_gas_price]
              /\ store' = update_tx_fields(store, t.tx_id, EncodeRawTx(new_gas_price),
                                            new_gas_price, new_gas_price)
              /\ tx' = [tx EXCEPT ![p] = t]
    /\ pc' = [pc EXCEPT ![p] = "send"]
    /\ UNCHANGED <<config, ticks, txs, send_result, sent_log, current_max_gas_price,
                   rejected, skipped, createvars, queryvars, facadevars, cancelled>>

\* a pass that stores the new price and signature with the blob it was handed
PassPersistStaleBlob(p) ==
    /\ pc[p] = "loop" /\ txs[p] # <<>>
    /\ Head(txs[p]).encoded.valid
    /\ \E network_price \in NetworkPrices :
          LET t == Head(txs[p])
              new_gas_price == ResolveGasPrice(t, network_price)
          IN  /\ ~SkipGuard(new_gas_price, current_max_gas_price[p])
              /\ current_max_gas_price' = [current_max_gas_price EXCEPT ![p] = new_gas_price]
              /\ raw_tx' = [raw_tx EXCEPT ![p] = new_gas_price]
              /\ store' = update_tx_fields(store, t.tx_id, t.encoded,
                                            new_gas_price, new_gas_price)
              /\ tx' = [tx EXCEPT ![p] = t]
    /\ pc' = [pc EXCEPT ![p] = "send"]
    /\ UNCHANGED <<config, ticks, txs, send_result, sent_log, rejected, skipped, createvars, queryvars, facadevars, cancelled>>

\* lines 415-499: price resolved, guard passed, signed, update_tx_fields done
PassPersist(p) ==
    /\ pc[p] = "loop" /\ txs[p] # <<>>
    /\ Head(txs[p]).encoded.valid
    /\ \E network_price \in NetworkPrices :
          LET t == Head(txs[p])
              new_gas_price == ResolveGasPrice(t, network_price)
          IN  /\ ~SkipGuard(new_gas_price, current_max_gas_price[p])
              /\ current_max_gas_price' = [current_max_gas_price EXCEPT ![p] = new_gas_price]
              /\ raw_tx' = [raw_tx EXCEPT ![p] = new_gas_price]
              /\ store' = update_tx_fields(store, t.tx_id, EncodeRawTx(new_gas_price),
                                            new_gas_price, new_gas_price)
              /\ tx' = [tx EXCEPT ![p] = t]
    /\ pc' = [pc EXCEPT ![p] = "send"]
    /\ UNCHANGED <<config, ticks, txs, send_result, sent_log, rejected, skipped, createvars, queryvars, facadevars, cancelled>>

\* a `?` of lines 415, 450, 489, 490 returns the error: the pass ends here
PassAbort(p) ==
    /\ pc[p] = "loop" /\ txs[p] # <<>>
    /\ Head(txs[p]).encoded.valid
    /\ Return(p)
    /\ UNCHANGED <<config, store, ticks, rejected, skipped, createvars, queryvars, facadevars, cancelled>>

\* the future is dropped at the await of send_tx, after update_tx_fields
PassCancel(p) ==
    /\ pc[p] = "send"
    /\ cancelled' = [cancelled EXCEPT ![tx[p].tx_id] = raw_tx[p]]
    /\ Return(p)
    /\ UNCHANGED <<config, store, ticks, rejected, skipped, createvars, queryvars, facadevars>>

\* line 503: send_tx is invoked with the signed raw_tx and the node answers
PassSendTx(p) ==
    /\ pc[p] = "send"
    /\ \E r \in SendResults : send_result' = [send_result EXCEPT ![p] = r]
    /\ sent_log' = [sent_log EXCEPT ![p] = Append(sent_log[p], <<tx[p].tx_id, raw_tx[p]>>)]
    /\ rejected' = [rejected EXCEPT ![tx[p].tx_id] = NoPrice]
    /\ pc' = [pc EXCEPT ![p] = "result"]
    /\ skipped' = [skipped EXCEPT ![tx[p].tx_id] = NoPrice]
    /\ cancelled' = [cancelled EXCEPT ![tx[p].tx_id] = NoPrice]
    /\ UNCHANGED <<config, store, ticks, txs, tx, raw_tx, current_max_gas_price, createvars, queryvars, facadevars>>

\* a success branch that stores the new hash in place of the earlier ones
PassSendOkReplace(p) ==
    /\ pc[p] = "result" /\ send_result[p] = "ok"
    /\ store' = transaction_sent(store, tx[p].tx_id,
                      <<TxHash(tx[p].tx_id, raw_tx[p])>>,
                      raw_tx[p])
    /\ Continue(p)
    /\ UNCHANGED <<config, ticks, current_max_gas_price, sent_log, rejected, skipped, createvars, queryvars, facadevars, cancelled>>

\* lines 504-515: send_tx returned a hash
PassSendOk(p) ==
    /\ pc[p] = "result" /\ send_result[p] = "ok"
    /\ store' = transaction_sent(store, tx[p].tx_id,
                      Append(tx[p].tmp_onchain_txs, TxHash(tx[p].tx_id, raw_tx[p])),
                      raw_tx[p])
    /\ Continue(p)
    /\ UNCHANGED <<config, ticks, current_max_gas_price, sent_log, rejected, skipped, createvars, queryvars, facadevars, cancelled>>

\* a demotion that does not look at resent_times
PassNonceTooLowAlwaysDemote(p) ==
    /\ pc[p] = "result" /\ send_result[p] = NonceTooLowMsg
    /\ store' = IF tx[p].tmp_onchain_txs # <<>>
                THEN transaction_failed_send(store, tx[p].tx_id, tx[p].resent_times + 1,
                                             send_result[p])
                ELSE transaction_failed_with_nonce_too_low(store, tx[p].tx_id, send_result[p])
    /\ Continue(p)
    /\ UNCHANGED <<config, ticks, current_max_gas_price, sent_log, rejected, skipped, createvars, queryvars, facadevars, cancelled>>

\* lines 518-539
PassNonceTooLow(p) ==
    /\ pc[p] = "result" /\ send_result[p] = NonceTooLowMsg
    /\ store' = IF tx[p].tmp_onchain_txs # <<>> /\ tx[p].resent_times < RESENT_LIMIT
                THEN transaction_failed_send(store, tx[p].tx_id, tx[p].resent_times + 1,
                                             send_result[p])
                ELSE transaction_failed_with_nonce_too_low(store, tx[p].tx_id, send_result[p])
    /\ Continue(p)
    /\ UNCHANGED <<config, ticks, current_max_gas_price, sent_log, rejected, skipped, createvars, queryvars, facadevars, cancelled>>

\* lines 540-544
PassAlreadyKnown(p) ==
    /\ pc[p] = "result" /\ send_result[p] = AlreadyKnownMsg
    /\ store' = retry_send_transaction(store, tx[p].tx_id, TRUE)
    /\ rejected' = [rejected EXCEPT ![tx[p].tx_id] = raw_tx[p]]
    /\ Continue(p)
    /\ UNCHANGED <<config, ticks, current_max_gas_price, sent_log, skipped, createvars, queryvars, facadevars, cancelled>>

\* a failure branch that gives up the pass after recording the error
PassOtherErrorAbort(p) ==
    /\ pc[p] = "result" /\ send_result[p] = OtherErrorMsg
    /\ store' = transaction_failed_send(store, tx[p].tx_id, tx[p].resent_times,
                                         send_result[p])
    /\ Return(p)
    /\ UNCHANGED <<config, ticks, rejected, skipped, createvars, queryvars, facadevars, cancelled>>

\* lines 546-547
PassOtherError(p) ==
    /\ pc[p] = "result" /\ send_result[p] = OtherErrorMsg
    /\ store' = transaction_failed_send(store, tx[p].tx_id, tx[p].resent_times,
                                         send_result[p])
    /\ Continue(p)
    /\ UNCHANGED <<config, ticks, current_max_gas_price, sent_log, rejected, skipped, createvars, queryvars, facadevars, cancelled>>

\* line 551
PassEnd(p) ==
    /\ pc[p] = "loop" /\ txs[p] = <<>>
    /\ Return(p)
    /\ UNCHANGED <<config, store, ticks, rejected, skipped, createvars, queryvars, facadevars, cancelled>>

(******************* reconciliation and the orchestrator *******************)
\* a hash of the record is found confirmed: succeeded or reverted
Reconcile(id) ==
    /\ store[id].status \notin TerminalStatuses
    /\ store[id].tmp_onchain_txs # <<>>
    /\ \E i \in DOMAIN store[id].tmp_onchain_txs, succeeded \in BOOLEAN :
          store' = IF succeeded
                   THEN transaction_confirmed(store, id, store[id].tmp_onchain_txs[i])
                   ELSE transaction_confirmed_and_failed(store, id,
                            store[id].tmp_onchain_txs[i], "reverted")
    /\ UNCHANGED <<config, passvars, rejected, skipped, createvars, queryvars, facadevars, cancelled>>

\* the orchestrator marks a sent record as stalled
MarkStalled(id) ==
    /\ store[id].status = "Sent"
    /\ store' = retry_send_transaction(store, id, TRUE)
    /\ UNCHANGED <<config, passvars, rejected, skipped, createvars, queryvars, facadevars, cancelled>>

PassStep(p) ==
    \/ PassDeserializeFailed(p)
    \/ PassSkip(p)
    \/ PassPersist(p)
    \/ PassAbort(p)
    \/ PassCancel(p)
    \/ PassSendTx(p)
    \/ PassSendOk(p)
    \/ PassNonceTooLow(p)
    \/ PassAlreadyKnown(p)
    \/ PassOtherError(p)
    \/ PassEnd(p)

\* send passes run one at a time (the driver's tick), reconciliation and the
\* orchestrator run beside them
Next ==
    \/ \E p \in {1} : StartPass(p) \/ PassStep(p)
    \/ \E id \in DOMAIN store : Reconcile(id) \/ MarkStalled(id)

Spec == Init /\ [][Next]_vars

\* two send passes may overlap, each working on its own snapshot of a store
\* of records newly created at one starting price without a price cap, the
\* oldest possibly with a blob that no longer deserializes
InitOverlap ==
    /\ gas_price_method = "dynamic"
    /\ polygon_priority = "slow"
    /\ store \in {s \in [TxIds -> UNION {StoredRecords(i) : i \in TxIds}] :
                     \A i \in TxIds :
                        /\ s[i] \in FreshRecords(i, i) \cup CorruptRecords(i)
                        /\ s[i].max_gas_price = NoPrice
                        /\ i > 1 => /\ s[i].encoded.valid
                                    /\ s[i].starting_gas_price = s[1].starting_gas_price}
    /\ rejected = [i \in TxIds |-> NoPrice]
    /\ skipped = [i \in TxIds |-> NoPrice]
    /\ cancelled = [i \in TxIds |-> NoPrice]
    /\ InitIdle

NextOverlap ==
    \E p \in Passes : StartPass(p) \/ PassStep(p)

SpecOverlap == InitOverlap /\ [][NextOverlap]_vars

(************************** passes that keep running ***********************)
\* highest stored price at which the orchestrator still marks a record stalled
MaxStalledPrice == 3001

\* the driver loop hands every sendable record, in ascending nonce order
AllSendable ==
    {b \in Batches :
        /\ \A i \in DOMAIN store : store[i].status \in SendableStatuses
                                      => \E k \in DOMAIN b : b[k] = i
        /\ \A i, j \in DOMAIN b : i < j => store[b[i]].nonce < store[b[j]].nonce}

\* a send pass over every sendable record; passes are not counted
LiveStartPass(p) ==
    /\ UNCHANGED ticks
    /\ \E b \in AllSendable : Begin(p, b)

\* the node accepts the broadcast, unless it holds the same signed bytes
\* from an earlier broadcast of the record
LiveSendTx(p) ==
    /\ PassSendTx(p)
    /\ send_result'[p] =
          IF \E i \in DOMAIN store[tx[p].tx_id].tmp_onchain_txs :
                store[tx[p].tx_id].tmp_onchain_txs[i] = TxHash(tx[p].tx_id, raw_tx[p])
          THEN AlreadyKnownMsg
          ELSE "ok"

LiveMarkStalled(id) ==
    /\ store[id].current_gas_price <= MaxStalledPrice
    /\ MarkStalled(id)

\* the steps of the send pass when signer and node answer without error
LivePass ==
    \/ LiveStartPass(1)
    \/ PassDeserializeFailed(1)
    \/ PassSkip(1)
    \/ PassPersist(1)
    \/ LiveSendTx(1)
    \/ PassSendOk(1)
    \/ PassAlreadyKnown(1)
    \/ PassEnd(1)

NextLive ==
    \/ LivePass
    \/ \E id \in DOMAIN store : LiveMarkStalled(id)

\* send passes keep being run and every step of a pass completes
SpecLive == Init /\ [][NextLive]_vars /\ WF_vars(LivePass)

(********************* passes dropped before broadcast *********************)
\* a record left by earlier runs of the driver: broadcast once at its starting
\* price sp and marked stalled by the orchestrator
StalledRecords(id) ==
    { [ create_dao_entity(id, id, sp, NoPrice, EncodeRawTx(sp), "Transfer")
          EXCEPT !.current_gas_price = sp,
                 !.signature = sp,
                 !.status = "ResendAndBumpGas",
                 !.tmp_onchain_txs = <<TxHash(id, sp)>> ] :
        sp \in {p \in StartPrices : p > 0} }

InitCancel ==
    /\ gas_price_method \in {"static", "dynamic"}
    /\ polygon_priority = "slow"
    /\ store \in {s \in [TxIds -> UNION {StoredRecords(i) \cup StalledRecords(i) : i \in TxIds}] :
                     \A i \in TxIds :
                        /\ s[i] \in StoredRecords(i) \cup StalledRecords(i)
                        /\ s[i].max_gas_price = NoPrice}
    /\ rejected = [i \in TxIds |-> NoPrice]
    /\ skipped = [i \in TxIds |-> NoPrice]
    /\ cancelled = [i \in TxIds |-> NoPrice]
    /\ InitIdle

\* send passes run one at a time; nothing else touches the store
NextCancel ==
    StartPass(1) \/ PassStep(1)

SpecCancel == InitCancel /\ [][NextCancel]_vars

(************************ one batch in nonce order *************************)
\* number of records of the batch
NumBatchRecords == 3
\* starting prices of the batch, all above every eth_gasPrice answer
BatchPrices == {2200, 2500, 3000}

InitBatch ==
    /\ gas_price_method \in {"static", "dynamic"}
    /\ polygon_priority = "slow"
    /\ store \in [1..NumBatchRecords ->
                    {create_dao_entity(i, i, sp, NoPrice,
                                       IF ok THEN EncodeRawTx(sp) ELSE CorruptBlob, "Transfer") :
                        i \in 1..NumBatchRecords, sp \in BatchPrices, ok \in BOOLEAN}]
    /\ \A i \in 1..NumBatchRecords : store[i].tx_id = i
    /\ rejected = [i \in 1..NumBatchRecords |-> NoPrice]
    /\ skipped = [i \in 1..NumBatchRecords |-> NoPrice]
    /\ cancelled = [i \in 1..NumBatchRecords |-> NoPrice]
    /\ InitIdle

\* a send pass over every sendable record, in ascending nonce order
StartPassAll(p) ==
    /\ ticks < MaxTicks
    /\ ticks' = ticks + 1
    /\ \E b \in AllSendable : Begin(p, b)

NextBatch ==
    StartPassAll(1) \/ PassStep(1)

SpecBatch == InitBatch /\ [][NextBatch]_vars

(***************************** record creation *****************************)
\* eth_getTransactionCount(pending) and (latest) of the sender
NetworkNonces == {n \in (0..MaxNetworkNonce) \X (0..MaxNetworkNonce) : n[2] <= n[1]}

InitCreate ==
    /\ gas_price_method \in {"static", "dynamic"}
    /\ polygon_priority = "slow"
    /\ store = <<>>
    /\ rejected = [i \in TxIds |-> NoPrice]
    /\ skipped = [i \in TxIds |-> NoPrice]
    /\ cancelled = [i \in TxIds |-> NoPrice]
    /\ InitIdle

\* the facade resolves the nonce of a transfer
TransferGetNonce ==
    /\ cpc = "idle" /\ Len(store) < NumRecords
    /\ \E n \in NetworkNonces :
          /\ cnet' = n
          /\ cnonce' = get_next_nonce(store, n[1], n[2])
    /\ cpc' = "transfer"
    /\ UNCHANGED <<config, store, passvars, rejected, skipped, queryvars, facadevars, cancelled>>

\* make_transfer builds the record (lines 160-245) and the facade stores it
TransferInsert ==
    /\ cpc = "transfer"
    /\ \E entity \in FreshRecords(Len(store) + 1, cnonce) :
          store' = insert_raw_transaction(store, entity)
    /\ cpc' = "idle" /\ cnonce' = 0 /\ cnet' = <<0, 0>>
    /\ UNCHANGED <<config, passvars, rejected, skipped, queryvars, facadevars, cancelled>>

\* approve_multi_payment_contract, lines 159-165: the nonce of the approval
ApproveGetNonce ==
    /\ cpc = "idle" /\ Len(store) < NumRecords
    /\ \E n \in NetworkNonces :
          /\ cnet' = n
          /\ cnonce' = get_next_nonce_info(store, n[1], n[2]).network_nonce_latest
    /\ cpc' = "approve"
    /\ UNCHANGED <<config, store, passvars, rejected, skipped, queryvars, facadevars, cancelled>>

\* approve_multi_payment_contract, lines 159-186: the approval is stored
ApproveInsert ==
    /\ cpc = "approve"
    /\ \E network_price \in NetworkPrices :
          LET gas_price == (network_price * 15) \div 10
          IN  store' = insert_raw_transaction(store,
                          create_dao_entity(Len(store) + 1, cnonce, gas_price, gas_price,
                                            EncodeRawTx(gas_price), "Approve"))
    /\ cpc' = "idle" /\ cnonce' = 0 /\ cnet' = <<0, 0>>
    /\ UNCHANGED <<config, passvars, rejected, skipped, queryvars, facadevars, cancelled>>

NextCreate ==
    \/ TransferGetNonce
    \/ TransferInsert
    \/ ApproveGetNonce
    \/ ApproveInsert

SpecCreate == InitCreate /\ [][NextCreate]_vars

(****************************** wallet init ********************************)
\* balances and allowances the node reports
Balances == {0, 5}
Allowances == {0, GLM_MINIMUM_ALLOWANCE - 1, GLM_MINIMUM_ALLOWANCE, U256Max}

InitWallet ==
    /\ gas_price_method \in {"static", "dynamic"}
    /\ polygon_priority = "slow"
    /\ store \in {<<>>} \cup {<<r>> : r \in FreshRecords(1, 1)}
    /\ rejected = [i \in TxIds |-> NoPrice]
    /\ skipped = [i \in TxIds |-> NoPrice]
    /\ cancelled = [i \in TxIds |-> NoPrice]
    /\ InitIdle

WalletUnchanged == <<config, passvars, rejected, skipped, cancelled, createvars, queryvars,
                     clientvars, multivars, gasvars, verifyvars, fundsvars>>

WalletReturn(result) ==
    /\ wpc' = "done"
    /\ wresult' = result

\* init_wallet, lines 53-60 and 75: only SEND mode checks anything
WalletStart ==
    /\ wpc = "idle"
    /\ \E send \in BOOLEAN :
          IF send THEN wpc' = "glm" /\ wresult' = wresult
          ELSE WalletReturn("ok")
    /\ UNCHANGED <<store, wread, wqueries, welapsed, WalletUnchanged>>

\* a token balance check that lets a zero balance through
WalletGlmBalanceUnchecked ==
    /\ wpc = "glm"
    /\ \E glm_balance \in Balances :
          /\ wread' = [wread EXCEPT !.glm = glm_balance]
          /\ wpc' = "eth" /\ wresult' = wresult
    /\ UNCHANGED <<store, wqueries, welapsed, WalletUnchanged>>

\* init_wallet, lines 63-66
WalletGlmBalance ==
    /\ wpc = "glm"
    /\ \E glm_balance \in Balances :
          /\ wread' = [wread EXCEPT !.glm = glm_balance]
          /\ IF glm_balance = 0 THEN WalletReturn(InsufficientGlm)
             ELSE wpc' = "eth" /\ wresult' = wresult
    /\ UNCHANGED <<store, wqueries, welapsed, WalletUnchanged>>

\* init_wallet, lines 68-71
WalletEthBalance ==
    /\ wpc = "eth"
    /\ \E eth_balance \in Balances :
          /\ wread' = [wread EXCEPT !.eth = eth_balance]
          /\ IF eth_balance = 0 THEN WalletReturn(InsufficientEth)
             ELSE wpc' = "approve" /\ wresult' = wresult
    /\ UNCHANGED <<store, wqueries, welapsed, WalletUnchanged>>

\* approve_multi_payment_contract, lines 127-130 and 221-222
ApproveStart ==
    /\ wpc = "approve"
    /\ \E configured \in BOOLEAN :
          /\ wread' = [wread EXCEPT !.contract = IF configured THEN 1 ELSE 0]
          /\ IF configured THEN wpc' = "allowance" /\ wresult' = wresult
             ELSE WalletReturn("ok")
    /\ UNCHANGED <<store, wqueries, welapsed, WalletUnchanged>>

\* an allowance check that approves again whatever the allowance is
ApproveQueryAllowanceAlways ==
    /\ wpc = "allowance"
    /\ wqueries' = wqueries + 1
    /\ \E allowance \in Allowances :
          /\ wread' = [wread EXCEPT !.allowance = allowance]
          /\ wpc' = "build" /\ wresult' = wresult
    /\ UNCHANGED <<store, welapsed, WalletUnchanged>>

\* lines 133-144 and 213-220: the allowance decides
ApproveQueryAllowance ==
    /\ wpc = "allowance"
    /\ wqueries' = wqueries + 1
    /\ \E allowance \in Allowances :
          /\ wread' = [wread EXCEPT !.allowance = allowance]
          /\ IF allowance < GLM_MINIMUM_ALLOWANCE
             THEN wpc' = "build" /\ wresult' = wresult
             ELSE WalletReturn("ok")
    /\ UNCHANGED <<store, welapsed, WalletUnchanged>>

\* lines 152-189: the Approve record is built and stored, the grace delay runs
ApproveInsertRecord ==
    /\ wpc = "build"
    /\ \E network_price \in NetworkPrices, n \in NetworkNonces :
          LET gas_price == (network_price * 15) \div 10
              nonce_info == get_next_nonce_info(store, n[1], n[2])
          IN  store' = insert_raw_transaction(store,
                          create_dao_entity(Len(store) + 1, nonce_info.network_nonce_latest,
                                            gas_price, gas_price,
                                            EncodeRawTx(gas_price), "Approve"))
    /\ welapsed' = ApproveGrace
    /\ wpc' = "poll"
    /\ UNCHANGED <<wread, wqueries, wresult, WalletUnchanged>>

\* a poll that has no ceiling
ApprovePollNoCeiling ==
    /\ wpc = "poll"
    /\ wqueries' = wqueries + 1
    /\ \E allowance \in Allowances :
          IF allowance >= GLM_MINIMUM_ALLOWANCE
          THEN WalletReturn("ok") /\ welapsed' = welapsed
          ELSE /\ welapsed' = welapsed + ApprovePollDelay
               /\ UNCHANGED <<wpc, wresult, cancelled>>
    /\ UNCHANGED <<store, wread, WalletUnchanged>>

\* lines 190-212: one round of the poll loop
ApprovePoll ==
    /\ wpc = "poll"
    /\ wqueries' = wqueries + 1
    /\ \E allowance \in Allowances :
          IF allowance >= GLM_MINIMUM_ALLOWANCE
          THEN WalletReturn("ok") /\ welapsed' = welapsed
          ELSE IF welapsed > ApproveCeiling
               THEN WalletReturn("ok") /\ welapsed' = welapsed
               ELSE /\ welapsed' = welapsed + ApprovePollDelay
                    /\ UNCHANGED <<wpc, wresult, cancelled>>
    /\ UNCHANGED <<store, wread, WalletUnchanged>>

\* a call of the node fails and the error is returned with `?`
\* (lines 63, 68, 127, 142, 159, 162, 186, 201)
WalletRpcFailed ==
    /\ wpc \in {"glm", "eth", "approve", "allowance", "build", "poll"}
    /\ WalletReturn(RpcFailed)
    /\ UNCHANGED <<store, wread, wqueries, welapsed, WalletUnchanged>>

NextWallet ==
    \/ WalletStart
    \/ WalletGlmBalance
    \/ WalletEthBalance
    \/ ApproveStart
    \/ ApproveQueryAllowance
    \/ ApproveInsertRecord
    \/ ApprovePoll
    \/ WalletRpcFailed

\* init_wallet is one task that keeps being polled
SpecWallet == InitWallet /\ [][NextWallet]_vars /\ WF_vars(NextWallet)

(******************************* get_client ********************************)
InitClient ==
    /\ gas_price_method = "static"
    /\ polygon_priority = "slow"
    /\ store = <<>>
    /\ rejected = [i \in TxIds |-> NoPrice]
    /\ skipped = [i \in TxIds |-> NoPrice]
    /\ cancelled = [i \in TxIds |-> NoPrice]
    /\ InitIdle

ClientUnchanged == <<config, store, passvars, rejected, skipped, cancelled, createvars, queryvars,
                     initvars, multivars, gasvars, verifyvars, fundsvars>>

\* tokio RwLock: a read guard is granted while no task holds the write guard,
\* the write guard while no task holds any guard
CanRead == \A u \in Tasks : gguard[u] # "write"
CanWrite == \A u \in Tasks : gguard[u] = "none"

\* lines 649-652: task t calls for a network and takes the read guard
GetClientRead(t) ==
    /\ gpc[t] = "idle"
    /\ CanRead
    /\ \E geth_addr \in RpcUrls : gurl' = [gurl EXCEPT ![t] = geth_addr]
    /\ gguard' = [gguard EXCEPT ![t] = "read"]
    /\ gpc' = [gpc EXCEPT ![t] = "read"]
    /\ UNCHANGED <<client_map, gclient, ginserts, ClientUnchanged>>

\* a lookup that keeps the read guard when it misses
GetClientLookupKeepingGuard(t) ==
    /\ gpc[t] = "read"
    /\ IF client_map[gurl[t]] # NoClient
       THEN /\ gclient' = [gclient EXCEPT ![t] = client_map[gurl[t]]]
            /\ gpc' = [gpc EXCEPT ![t] = "done"]
            /\ gguard' = [gguard EXCEPT ![t] = "none"]
       ELSE /\ gclient' = gclient
            /\ gpc' = [gpc EXCEPT ![t] = "create"]
            /\ gguard' = gguard
    /\ UNCHANGED <<client_map, gurl, ginserts, ClientUnchanged>>

\* lines 653-656: the lookup; the read guard is dropped by the return and at
\* the end of the block
GetClientLookup(t) ==
    /\ gpc[t] = "read"
    /\ IF client_map[gurl[t]] # NoClient
       THEN /\ gclient' = [gclient EXCEPT ![t] = client_map[gurl[t]]]
            /\ gpc' = [gpc EXCEPT ![t] = "done"]
       ELSE /\ gclient' = gclient
            /\ gpc' = [gpc EXCEPT ![t] = "create"]
    /\ gguard' = [gguard EXCEPT ![t] = "none"]
    /\ UNCHANGED <<client_map, gurl, ginserts, ClientUnchanged>>

\* lines 658-659: the transport and the client are built, outside any guard;
\* the client task t builds is named t
GetClientCreate(t) ==
    /\ gpc[t] = "create"
    /\ gclient' = [gclient EXCEPT ![t] = t]
    /\ gpc' = [gpc EXCEPT ![t] = "write"]
    /\ UNCHANGED <<client_map, gurl, gguard, ginserts, ClientUnchanged>>

\* line 658: Http::new fails and the error is returned
GetClientCreateFailed(t) ==
    /\ gpc[t] = "create"
    /\ gpc' = [gpc EXCEPT ![t] = "done"]
    /\ UNCHANGED <<client_map, gurl, gclient, gguard, ginserts, ClientUnchanged>>

\* line 661: the task waits for the write guard and takes it
GetClientWrite(t) ==
    /\ gpc[t] = "write"
    /\ CanWrite
    /\ gguard' = [gguard EXCEPT ![t] = "write"]
    /\ gpc' = [gpc EXCEPT ![t] = "insert"]
    /\ UNCHANGED <<client_map, gurl, gclient, ginserts, ClientUnchanged>>

\* lines 662-664: the insert; the write guard is dropped by the return
GetClientInsert(t) ==
    /\ gpc[t] = "insert"
    /\ client_map' = [client_map EXCEPT ![gurl[t]] = gclient[t]]
    /\ ginserts' = [ginserts EXCEPT ![gurl[t]] = Append(@, gclient[t])]
    /\ gguard' = [gguard EXCEPT ![t] = "none"]
    /\ gpc' = [gpc EXCEPT ![t] = "done"]
    /\ UNCHANGED <<gurl, gclient, ClientUnchanged>>

GetClientStep(t) ==
    \/ GetClientRead(t)
    \/ GetClientLookup(t)
    \/ GetClientCreate(t)
    \/ GetClientCreateFailed(t)
    \/ GetClientWrite(t)
    \/ GetClientInsert(t)

NextClient == \E t \in Tasks : GetClientStep(t)

SpecClient == InitClient /\ [][NextClient]_vars

\* every call that can take a step eventually takes one
SpecClientLive == SpecClient /\ \A t \in Tasks : WF_vars(GetClientStep(t))

(*********************** prepare_erc20_multi_transfer **********************)
\* largest number of receivers, and of amounts, of one call
MaxReceivers == 2
\* largest nonce of a call
MaxMultiNonce == 3
\* a byte, the length of a packed word and of an address (H160)
ByteRange == 256
WordLen == 32
AddrLen == 20

\* receiver addresses: constant bytes, and one whose bytes all differ
Receivers ==
    {[i \in 1..AddrLen |-> b] : b \in {0, 1, 255}} \cup {[i \in 1..AddrLen |-> 10 * i]}
\* amounts, all below 2^96 (and small enough for their sums to stay integers here)
Amounts == {0, 1, 255, 256, 65536, 16777217, 536870911}

RECURSIVE to_big_endian(_, _)
\* U256::to_big_endian into a slice of len bytes: the low len bytes of n
to_big_endian(n, len) ==
    IF len = 0 THEN <<>>
    ELSE Append(to_big_endian(n \div ByteRange, len - 1), n % ByteRange)

RECURSIVE to_little_endian(_, _)
to_little_endian(n, len) ==
    IF len = 0 THEN <<>>
    ELSE <<n % ByteRange>> \o to_little_endian(n \div ByteRange, len - 1)

\* a packed word whose amount is written little-endian
PackWordLittle(receiver, amount) ==
    SubSeq(receiver, 1, AddrLen)
        \o SubSeq(to_little_endian(amount, WordLen), AddrLen + 1, WordLen)

\* lines 429-432: the amount big-endian over the whole word, then the first
\* 20 bytes overwritten by the receiver
PackWord(receiver, amount) ==
    SubSeq(receiver, 1, AddrLen)
        \o SubSeq(to_big_endian(amount, WordLen), AddrLen + 1, WordLen)

\* lines 425-434: receivers zipped with amounts
Packed(receivers, amounts) ==
    LET n == IF Len(receivers) < Len(amounts) THEN Len(receivers) ELSE Len(amounts)
    IN  [i \in 1..n |-> PackWord(receivers[i], amounts[i])]

RECURSIVE amount_sum(_)
\* line 436
amount_sum(amounts) ==
    IF amounts = <<>> THEN 0
    ELSE amount_sum(SubSeq(amounts, 1, Len(amounts) - 1)) + amounts[Len(amounts)]

\* a choice of method that takes the direct one for odd nonces
DirectWhenOdd(nonce) == nonce % 2 = 1

\* line 438
Direct(nonce) == nonce % 2 = 0

\* lines 425-469: the call the function encodes
EncodeMultiTransfer(receivers, amounts, nonce) ==
    IF Direct(nonce)
    THEN [ method |-> "golemTransferDirectPacked",
           packed |-> Packed(receivers, amounts),
           sum    |-> NoPrice ]
    ELSE [ method |-> "golemTransferIndirectPacked",
           packed |-> Packed(receivers, amounts),
           sum    |-> amount_sum(amounts) ]

SeqsUpTo(S, n) == UNION {[1..k -> S] : k \in 1..n}

InitMulti ==
    /\ gas_price_method = "static"
    /\ polygon_priority = "slow"
    /\ store = <<>>
    /\ rejected = [i \in TxIds |-> NoPrice]
    /\ skipped = [i \in TxIds |-> NoPrice]
    /\ cancelled = [i \in TxIds |-> NoPrice]
    /\ InitIdle

MultiUnchanged == <<config, store, passvars, rejected, skipped, cancelled, createvars, queryvars,
                    initvars, clientvars, gasvars, verifyvars, fundsvars>>

\* one call of prepare_erc20_multi_transfer
PrepareMultiTransfer ==
    /\ mt_call = NoQuery
    /\ \E receivers \in SeqsUpTo(Receivers, MaxReceivers),
          amounts \in SeqsUpTo(Amounts, MaxReceivers),
          nonce \in 0..MaxMultiNonce :
          /\ mt_call' = [receivers |-> receivers, amounts |-> amounts, nonce |-> nonce]
          /\ mt_tx' = EncodeMultiTransfer(receivers, amounts, nonce)
    /\ UNCHANGED MultiUnchanged

\* lines 444-447, 455-463: the gas estimation fails and the error is returned
PrepareMultiTransferFailed ==
    /\ mt_call = NoQuery
    /\ \E receivers \in SeqsUpTo(Receivers, MaxReceivers),
          amounts \in SeqsUpTo(Amounts, MaxReceivers),
          nonce \in 0..MaxMultiNonce :
          mt_call' = [receivers |-> receivers, amounts |-> amounts, nonce |-> nonce]
    /\ mt_tx' = NoQuery
    /\ UNCHANGED MultiUnchanged

NextMulti == PrepareMultiTransfer \/ PrepareMultiTransferFailed

SpecMulti == InitMulti /\ [][NextMulti]_vars

(*************************** gas price resolution **************************)
\* stored prices of records handed to a pass, around the rungs of the ladders
StoredPrices == {7, 1001, 1101, 1353, 2703, 2704, 3001, 3605, 5406, 9010, 9500}

\* records a pass can be handed: never priced and Created, or priced before
PricedRecords ==
    {[create_dao_entity(1, 1, d[1], d[2], EncodeRawTx(d[1]), "Transfer")
        EXCEPT !.status = st, !.current_gas_price = c] :
        d \in StartMax \cup {<<NoPrice, NoPrice>>},
        st \in {"Created", "ErrorSent", "ResendAndBumpGas"},
        c \in {NoPrice} \cup StoredPrices}

InitGas ==
    /\ gas_price_method \in {"static", "dynamic"}
    /\ polygon_priority \in {"slow", "fast", "express"}
    /\ store = <<>>
    /\ rejected = [i \in TxIds |-> NoPrice]
    /\ skipped = [i \in TxIds |-> NoPrice]
    /\ cancelled = [i \in TxIds |-> NoPrice]
    /\ InitIdle

\* lines 417-478: the price of one send of one record
ResolveOnce ==
    /\ gas_call = NoQuery
    /\ \E t \in PricedRecords, network_price \in NetworkPrices :
          /\ t.current_gas_price = NoPrice => t.status = "Created"
          /\ gas_call' = [t |-> t, network_price |-> network_price]
          /\ gas_result' = ResolveGasPrice(t, network_price)
    /\ UNCHANGED <<config, store, passvars, rejected, skipped, createvars, queryvars,
                   initvars, clientvars, multivars, verifyvars, fundsvars, cancelled>>

NextGas == ResolveOnce

SpecGas == InitGas /\ [][NextGas]_vars

(************************** on-chain status query **************************)
\* highest block number of the node
MaxBlock == 4
\* highest required_confirmations of a network's environment
MaxConfirmations == 3
\* a receipt of a transaction that is not in a block yet
NoBlock == -1
TRANSACTION_STATUS_SUCCESS == 1

\* what get_tx_receipt answers: None, or a receipt
NoReceipt == [present |-> FALSE, block_number |-> NoBlock, status |-> 0, gas_used |-> NoPrice]
Receipts ==
    {NoReceipt} \cup
    [present : {TRUE}, block_number : {NoBlock} \cup (1..MaxBlock),
     status : {0, TRANSACTION_STATUS_SUCCESS}, gas_used : {NoPrice, 21}]

\* what get_tx_from_network answers: None, or a transaction with its gas price
NetworkTransactions == {NoPrice} \cup {p \in StartPrices : p > 0}

\* a test that counts the receipt's block as no confirmation
TxConfirmedAfter(tx_bn, required_confirmations, current_block) ==
    tx_bn + required_confirmations <= current_block

\* a test that counts the receipt's block as two confirmations
TxConfirmedEarly(tx_bn, required_confirmations, current_block) ==
    tx_bn + required_confirmations - 2 <= current_block

\* line 556: tx.block_number is the first confirmation
TxConfirmed(tx_bn, required_confirmations, current_block) ==
    tx_bn + required_confirmations - 1 <= current_block

\* a query that reports a receipt without a block number as pending
get_tx_on_chain_status_unmined_pending(receipt, transaction, current_block, required_confirmations) ==
    IF receipt.present
    THEN [ exists_on_chain |-> TRUE,
           pending         |-> receipt.block_number = NoBlock,
           confirmed       |-> /\ receipt.block_number # NoBlock
                               /\ TxConfirmed(receipt.block_number, required_confirmations,
                                              current_block),
           succeeded       |-> receipt.status = TRANSACTION_STATUS_SUCCESS,
           gas_used        |-> receipt.gas_used,
           gas_price       |-> IF receipt.block_number # NoBlock THEN transaction
                               ELSE NoPrice ]
    ELSE [ exists_on_chain |-> transaction # NoPrice,
           pending         |-> transaction # NoPrice,
           confirmed       |-> FALSE,
           succeeded       |-> FALSE,
           gas_used        |-> NoPrice,
           gas_price       |-> NoPrice ]

\* lines 525-573
get_tx_on_chain_status(receipt, transaction, current_block, required_confirmations) ==
    IF receipt.present
    THEN [ exists_on_chain |-> TRUE,
           pending         |-> FALSE,
           confirmed       |-> /\ receipt.block_number # NoBlock
                               /\ TxConfirmed(receipt.block_number, required_confirmations,
                                              current_block),
           succeeded       |-> receipt.status = TRANSACTION_STATUS_SUCCESS,
           gas_used        |-> receipt.gas_used,
           gas_price       |-> IF receipt.block_number # NoBlock THEN transaction
                               ELSE NoPrice ]
    ELSE [ exists_on_chain |-> transaction # NoPrice,
           pending         |-> transaction # NoPrice,
           confirmed       |-> FALSE,
           succeeded       |-> FALSE,
           gas_used        |-> NoPrice,
           gas_price       |-> NoPrice ]

InitStatus ==
    /\ gas_price_method = "static"
    /\ polygon_priority = "slow"
    /\ store = <<>>
    /\ rejected = [i \in TxIds |-> NoPrice]
    /\ skipped = [i \in TxIds |-> NoPrice]
    /\ cancelled = [i \in TxIds |-> NoPrice]
    /\ InitIdle

\* one call of get_tx_on_chain_status, with what the node answers to it
GetTxOnChainStatus ==
    /\ \E receipt \in Receipts, transaction \in NetworkTransactions,
          current_block \in 0..MaxBlock, required_confirmations \in 0..MaxConfirmations :
          /\ chain_query' = [ receipt |-> receipt, transaction |-> transaction,
                              current_block |-> current_block,
                              required_confirmations |-> required_confirmations ]
          /\ chain_status' = get_tx_on_chain_status(receipt, transaction, current_block,
                                                    required_confirmations)
    /\ UNCHANGED <<config, store, passvars, rejected, skipped, createvars, facadevars, cancelled>>

NextStatus == GetTxOnChainStatus

SpecStatus == InitStatus /\ [][NextStatus]_vars

(******************************** verify_tx ********************************)
TopicLen == 32
NotFoundOnChain == "not found on chain"
NoFirstLog == "Failure when parsing tx.logs.get(0)"
BadTopics == "Failure when parsing tx_log.topics.get(1)"
HashParseFailed == "tx hash failed to parse"

\* a 32-byte topic: an address left-padded with zero bytes, or a word whose
\* upper bytes are not zero
Topics ==
    {[i \in 1..TopicLen |-> IF i <= TopicLen - AddrLen THEN pad ELSE b] :
        pad \in {0, 9}, b \in {1, 2}}

\* log data: 32-byte words, and byte strings of other lengths
LogData == {to_big_endian(a, WordLen) : a \in Amounts} \cup {<<>>, <<1, 0>>, <<255, 255, 255>>}

Logs == [topics : {<<>>} \cup SeqsUpTo(Topics, 4), data : LogData]

\* what get_tx_receipt answers: an error, None, or a receipt with its logs
ReceiptLogs ==
    {<<>>} \cup {<<l>> : l \in Logs} \cup
    {<<l, m>> : l \in {k \in Logs : k.data = <<1, 0>>},
                m \in {k \in Logs : Len(k.topics) = 3 /\ k.data = <<>>}}

VerifyAnswers ==
    {[ok |-> FALSE, present |-> FALSE, logs |-> <<>>],
     [ok |-> TRUE, present |-> FALSE, logs |-> <<>>]} \cup
    [ok : {TRUE}, present : {TRUE}, logs : ReceiptLogs]

\* the address of a topic: its last 20 bytes
topic_to_str_address(topic) == SubSeq(topic, TopicLen - AddrLen + 1, TopicLen)

RECURSIVE from_bytes_acc(_, _)
from_bytes_acc(acc, bytes) ==
    IF bytes = <<>> THEN acc
    ELSE from_bytes_acc(acc * ByteRange + Head(bytes), Tail(bytes))

\* BigUint::from_bytes_be
from_bytes_be(bytes) == from_bytes_acc(0, bytes)

\* a BigDecimal made of the digits of the integer (its fixed scale is left out)
big_uint_to_big_dec(n) == [digits |-> n]

\* a decoding that takes sender and recipient from topics 0 and 1
verify_tx_shifted(tx_hash_valid, answer) ==
    IF ~tx_hash_valid THEN [err |-> HashParseFailed]
    ELSE IF ~answer.ok THEN [err |-> RpcFailed]
    ELSE IF ~answer.present THEN [err |-> NotFoundOnChain]
    ELSE IF answer.logs = <<>> THEN [err |-> NoFirstLog]
    ELSE LET tx_log == answer.logs[1]
         IN  IF Len(tx_log.topics) < 2 THEN [err |-> BadTopics]
             ELSE [ sender    |-> topic_to_str_address(tx_log.topics[1]),
                    recipient |-> topic_to_str_address(tx_log.topics[2]),
                    amount    |-> big_uint_to_big_dec(from_bytes_be(tx_log.data)) ]

\* lines 571-629
verify_tx(tx_hash_valid, answer) ==
    IF ~tx_hash_valid THEN [err |-> HashParseFailed]
    ELSE IF ~answer.ok THEN [err |-> RpcFailed]
    ELSE IF ~answer.present THEN [err |-> NotFoundOnChain]
    ELSE IF answer.logs = <<>> THEN [err |-> NoFirstLog]
    ELSE LET tx_log == answer.logs[1]
         IN  IF Len(tx_log.topics) # 3 THEN [err |-> BadTopics]
             ELSE [ sender    |-> topic_to_str_address(tx_log.topics[2]),
                    recipient |-> topic_to_str_address(tx_log.topics[3]),
                    amount    |-> big_uint_to_big_dec(from_bytes_be(tx_log.data)) ]

InitVerify ==
    /\ gas_price_method = "static"
    /\ polygon_priority = "slow"
    /\ store = <<>>
    /\ rejected = [i \in TxIds |-> NoPrice]
    /\ skipped = [i \in TxIds |-> NoPrice]
    /\ cancelled = [i \in TxIds |-> NoPrice]
    /\ InitIdle

\* one call of verify_tx
VerifyTx ==
    /\ vt_call = NoQuery
    /\ \E tx_hash_valid \in BOOLEAN, answer \in VerifyAnswers :
          /\ vt_call' = [tx_hash_valid |-> tx_hash_valid, answer |-> answer]
          /\ vt_result' = verify_tx(tx_hash_valid, answer)
    /\ UNCHANGED <<config, store, passvars, rejected, skipped, cancelled, createvars, queryvars,
                   initvars, clientvars, multivars, gasvars, fundsvars>>

NextVerify == VerifyTx

SpecVerify == InitVerify /\ [][NextVerify]_vars

(************************** has_enough_eth_for_gas *************************)
NotEnoughEth == "Not enough ETH balance for gas"
AddressParseFailed == "invalid address"

\* gas limits of a raw transaction
GasLimits == {0, 1, 55}

\* the blob of a raw transaction with its gas limit
EncodeRawTxGas(gas_price, gas) == [valid |-> TRUE, gas_price |-> gas_price, gas |-> gas]
CorruptBlobGas == [valid |-> FALSE, gas_price |-> NoPrice, gas |-> 0]

\* records handed to has_enough_eth_for_gas
FundedRecords ==
    {[create_dao_entity(1, 1, sp, NoPrice,
                        IF ok THEN EncodeRawTxGas(sp, g) ELSE CorruptBlobGas, "Transfer")
        EXCEPT !.current_gas_price = IF sent THEN sp ELSE NoPrice] :
        sp \in StartPrices, g \in GasLimits, ok \in BOOLEAN, sent \in BOOLEAN}

\* eth_getBalance answers: an error (NoPrice), or a balance at, next to or
\* away from a gas cost
EthBalances ==
    {NoPrice, 0} \cup
    {b \in {sp * g + d : sp \in StartPrices, g \in GasLimits, d \in {-1, 0, 1}} : b >= 0}

\* lines 768-772 of ethereum.rs
get_max_gas_costs(db_tx) == db_tx.encoded.gas_price * db_tx.encoded.gas

\* the decimal form of a U256
u256_to_big_dec(n) == [digits |-> n]

\* a check that also rejects a balance equal to the gas cost
has_enough_eth_for_gas_equal(db_tx, sender_valid, eth_balance) ==
    IF ~sender_valid THEN [err |-> AddressParseFailed]
    ELSE IF eth_balance = NoPrice THEN [err |-> RpcFailed]
    ELSE IF ~db_tx.encoded.valid THEN [err |-> JsonParseFailed]
    ELSE IF get_max_gas_costs(db_tx) >= eth_balance THEN [err |-> NotEnoughEth]
    ELSE [ok |-> u256_to_big_dec(get_max_gas_costs(db_tx))]

\* lines 133-154 of wallet.rs
has_enough_eth_for_gas(db_tx, sender_valid, eth_balance) ==
    IF ~sender_valid THEN [err |-> AddressParseFailed]
    ELSE IF eth_balance = NoPrice THEN [err |-> RpcFailed]
    ELSE IF ~db_tx.encoded.valid THEN [err |-> JsonParseFailed]
    ELSE IF get_max_gas_costs(db_tx) > eth_balance THEN [err |-> NotEnoughEth]
    ELSE [ok |-> u256_to_big_dec(get_max_gas_costs(db_tx))]

InitFunds ==
    /\ gas_price_method = "static"
    /\ polygon_priority = "slow"
    /\ store \in {<<r>> : r \in FundedRecords}
    /\ rejected = [i \in TxIds |-> NoPrice]
    /\ skipped = [i \in TxIds |-> NoPrice]
    /\ cancelled = [i \in TxIds |-> NoPrice]
    /\ InitIdle

\* one call of has_enough_eth_for_gas on the stored record
HasEnoughEthForGas ==
    /\ eg_call = NoQuery
    /\ \E sender_valid \in BOOLEAN, eth_balance \in EthBalances :
          /\ eg_call' = [db_tx |-> store[1], sender_valid |-> sender_valid,
                         eth_balance |-> eth_balance]
          /\ eg_result' = has_enough_eth_for_gas(store[1], sender_valid, eth_balance)
    /\ UNCHANGED <<config, store, passvars, rejected, skipped, cancelled, createvars, queryvars,
                   initvars, clientvars, multivars, gasvars, verifyvars>>

NextFunds == HasEnoughEthForGas

SpecFunds == InitFunds /\ [][NextFunds]_vars

(******************************** claims ***********************************)
IsPrefix(a, b) == Len(a) <= Len(b) /\ \A i \in DOMAIN a : a[i] = b[i]

C2_BumpSufficient ==
    \A p \in Passes :
        (/\ pc[p] = "send"
         /\ tx[p].status = "ResendAndBumpGas"
         /\ tx[p].current_gas_price >= 1)
        => raw_tx[p] * min_bump_den >= tx[p].current_gas_price * min_bump_num

\* C3: when send_tx is invoked, and when it has returned, the stored
\* current_gas_price, encoded transaction and signature of the record are
\* those of the raw transaction being broadcast.
C3_DurableBeforeSend ==
    \A p \in Passes :
        pc[p] \in {"send", "result"} =>
            /\ store[tx[p].tx_id].current_gas_price = raw_tx[p]
            /\ store[tx[p].tx_id].encoded = EncodeRawTx(raw_tx[p])
            /\ store[tx[p].tx_id].signature = raw_tx[p]

\* a broadcast has succeeded at a price the record did not have when the
\* pass read it
C3_Witness ==
    \E p \in Passes : /\ pc[p] = "result" /\ send_result[p] = "ok"
                      /\ tx[p].current_gas_price # raw_tx[p]
                      /\ store[tx[p].tx_id].current_gas_price = raw_tx[p]

\* C4: no two non-failed records of the store carry the same nonce.
C4_NonceUnique ==
    \A i, j \in DOMAIN store :
        (/\ i # j
         /\ store[i].status # "Failed"
         /\ store[j].status # "Failed")
        => store[i].nonce # store[j].nonce

\* C5: in every transition the stored tmp_onchain_txs of every record keeps
\* its previous value as a prefix.
C5_HistoryAppendOnly ==
    [][\A id \in DOMAIN store :
          IsPrefix(store[id].tmp_onchain_txs, store'[id].tmp_onchain_txs)]_vars

\* C6: a record whose stored status is Confirmed, Failed or NonceTooLow keeps
\* that status in every step.
C6_TerminalSinks ==
    [][\A id \in DOMAIN store :
          store[id].status \in TerminalStatuses
              => store'[id].status = store[id].status]_vars

\* C7: the stored current_gas_price of a record never decreases (a price not
\* yet set counts as lower than every price).
C7_GasMonotonic ==
    [][\A id \in DOMAIN store :
          store'[id].current_gas_price >= store[id].current_gas_price]_vars

\* a record bumped above the price of its earlier broadcast
C7_Witness ==
    \E id \in DOMAIN store :
        /\ store[id].tmp_onchain_txs # <<>>
        /\ store[id].current_gas_price > store[id].tmp_onchain_txs[1][2]
        /\ Len(store[id].tmp_onchain_txs) >= 2

\* the pass p handles the answer r of send_tx in this step
Handles(p, r) ==
    pc[p] = "result" /\ send_result[p] = r /\ pc'[p] = "loop"

\* C8: when the broadcast fails with another error, resent_times grows by
\* one, the status becomes ErrorSent and the message is stored.
C8_OtherErrorCounted ==
    [][\A p \in Passes : Handles(p, OtherErrorMsg) =>
          /\ store'[tx[p].tx_id].resent_times = store[tx[p].tx_id].resent_times + 1
          /\ store'[tx[p].tx_id].status = "ErrorSent"
          /\ store'[tx[p].tx_id].last_error_msg = OtherErrorMsg]_vars

\* C9: when the broadcast fails with "nonce too low", the record becomes
\* ErrorSent if its tmp_onchain_txs is non-empty and resent_times < 5, and
\* NonceTooLow in every other case.
C9_NonceTooLowBranches ==
    [][\A p \in Passes : Handles(p, NonceTooLowMsg) =>
          IF /\ store[tx[p].tx_id].tmp_onchain_txs # <<>>
             /\ store[tx[p].tx_id].resent_times < 5
          THEN store'[tx[p].tx_id].status = "ErrorSent"
          ELSE store'[tx[p].tx_id].status = "NonceTooLow"]_vars

\* a record with a prior hash, demoted until resent_times reached 5 and then
\* marked NonceTooLow
C9_Witness ==
    \E id \in DOMAIN store :
        /\ store[id].status = "NonceTooLow"
        /\ store[id].tmp_onchain_txs # <<>>
        /\ store[id].resent_times = 5
        /\ store[id].last_error_msg = NonceTooLowMsg

\* C10: "already known" moves the record to ResendAndBumpGas, and the next
\* broadcast of the record is at a price strictly higher than the rejected one.
C10_AlreadyKnownBumps ==
    /\ \A p \in Passes :
          (pc[p] = "send" /\ rejected[tx[p].tx_id] # NoPrice)
              => raw_tx[p] > rejected[tx[p].tx_id]
    /\ \A id \in DOMAIN store :
          (rejected[id] # NoPrice /\ store[id].status \notin TerminalStatuses)
              => store[id].status = "ResendAndBumpGas"

\* C11: when send passes keep being run and the node accepts every broadcast,
\* every record is eventually broadcast (it gets a stored hash) or terminal.
C11_EventuallyBroadcast ==
    \A id \in TxIds :
        <>(store[id].tmp_onchain_txs # <<>> \/ store[id].status \in TerminalStatuses)

\* the first pass has gone through a whole batch whose first three records,
\* in nonce order, resolve to prices p1, p2, p3 with p2 < p1 < p3
C12_Scenario ==
    /\ ticks = 1 /\ pc[1] = "loop" /\ txs[1] = <<>>
    /\ \A i \in 1..3 : store[i].encoded.valid
    /\ store[2].starting_gas_price < store[1].starting_gas_price
    /\ store[1].starting_gas_price < store[3].starting_gas_price

C13_Reexamined(p) ==
    /\ pc[p] = "send"
    /\ skipped[tx[p].tx_id] # NoPrice

\* C13 as the specification words it: a record skipped behind a broadcast at
\* price p is broadcast by the next pass at a price of at least p.
C13_AtLeastSkipPrice ==
    \A p \in Passes :
        C13_Reexamined(p) => raw_tx[p] >= skipped[tx[p].tx_id]

\* C13: a record that has a stored current_gas_price and was skipped behind a
\* broadcast at price p is broadcast by the next pass at a price above p; a
\* record never priced before is priced afresh from the node's gas price.
C13_StoredPriceAboveSkipPrice ==
    \A p \in Passes :
        C13_Reexamined(p) /\ tx[p].current_gas_price # NoPrice =>
            raw_tx[p] > skipped[tx[p].tx_id]

\* a record with a stored price, skipped by the last pass, is about to be sent
C13_Witness ==
    \E p \in Passes :
        C13_Reexamined(p) /\ tx[p].current_gas_price # NoPrice

C15_AscendingNonceOrder ==
    \A p \in Passes :
        \A i, j \in DOMAIN sent_log[p] :
            i < j => store[sent_log[p][i][1]].nonce < store[sent_log[p][j][1]].nonce

\* C16: a record whose blob does not deserialize is marked Failed with the
\* message "Json parse failed, unrecoverable error", is not signed, persisted
\* or broadcast, and the pass goes on with the rest of its list.
C16_CorruptBlobFailsAndContinues ==
    [][\A p \in Passes :
          /\ (/\ pc[p] = "loop" /\ txs[p] # <<>>
              /\ ~Head(txs[p]).encoded.valid
              /\ <<pc[p], txs[p]>>' # <<pc[p], txs[p]>>)
             => LET id == Head(txs[p]).tx_id
                IN  /\ store'[id].status = "Failed"
                    /\ store'[id].last_error_msg = JsonParseFailed
                    /\ store'[id].signature = store[id].signature
                    /\ store'[id].current_gas_price = store[id].current_gas_price
                    /\ store'[id].tmp_onchain_txs = store[id].tmp_onchain_txs
                    /\ sent_log' = sent_log
                    /\ pc'[p] = "loop"
                    /\ txs'[p] = Tail(txs[p])
          /\ pc'[p] \in {"send", "result"} => tx'[p].encoded.valid]_vars

\* the first pass has failed a corrupt record and is sending a later record
C16_Witness ==
    /\ ticks = 1 /\ pc[1] = "send"
    /\ \E id \in DOMAIN store :
          /\ id # tx[1].tx_id
          /\ ~store[id].encoded.valid
          /\ store[id].status = "Failed"
          /\ store[id].last_error_msg = JsonParseFailed

\* C17: a record whose final_tx is set is Confirmed or Failed, and its final_tx
\* is one of the hashes of its tmp_onchain_txs; records failed for a corrupt
\* blob included.
C17_FinalTxTerminalAndListed ==
    \A id \in DOMAIN store :
        store[id].final_tx # NoHash =>
            /\ store[id].status \in TerminalStatuses
            /\ \E i \in DOMAIN store[id].tmp_onchain_txs :
                  store[id].tmp_onchain_txs[i] = store[id].final_tx

\* the local claims: one past the nonce of each unfinished record
C18_LocalClaims ==
    {store[i].nonce + 1 : i \in {j \in DOMAIN store : store[j].status \notin TerminalStatuses}}

\* C18: get_next_nonce returns the highest local claim whenever there is one,
\* even when the node's pending count is larger, and the node's pending count
\* only when there is none.
C18_LocalClaimWins ==
    cpc = "transfer" =>
        IF C18_LocalClaims = {}
        THEN cnonce = cnet[1]
        ELSE /\ cnonce \in C18_LocalClaims
             /\ \A n \in C18_LocalClaims : n <= cnonce

\* the local claim was returned although the node's pending count is larger
C18_Witness ==
    /\ cpc = "transfer"
    /\ C18_LocalClaims # {}
    /\ cnet[1] > cnonce

\* C19: the nonce of an Approve record is the one the nonce policy yields:
\* the highest local claim if there is one, else the node's pending count.
C19_ApproveNonceFromPolicy ==
    cpc = "approve" =>
        cnonce = get_next_nonce(store, cnet[1], cnet[2])

\* C20: get_tx_on_chain_status reports confirmed = true exactly when there is
\* a receipt with a block number and
\* receipt_block + required_confirmations - 1 <= current_block.
C20_ConfirmedExactly ==
    chain_status # NoStatus =>
        (chain_status.confirmed <=>
            /\ chain_query.receipt.present
            /\ chain_query.receipt.block_number # NoBlock
            /\ chain_query.receipt.block_number + chain_query.required_confirmations - 1
                   <= chain_query.current_block)

\* a receipt that has just reached the required number of confirmations
C20_Witness ==
    /\ chain_status # NoStatus
    /\ chain_status.confirmed
    /\ chain_query.required_confirmations > 1
    /\ chain_query.receipt.block_number + chain_query.required_confirmations - 1
           = chain_query.current_block

\* a query about a receipt in some block B, with required_confirmations = 3
C21_ThreeConfirmations ==
    /\ chain_status # NoStatus
    /\ chain_query.required_confirmations = 3
    /\ chain_query.receipt.present
    /\ chain_query.receipt.block_number # NoBlock

\* C21 as the specification words it: with required_confirmations = 3 and a
\* receipt in block B the transaction is not confirmed at current block B+2
\* and is confirmed at B+3.
C21_ConfirmedAtBPlus3 ==
    C21_ThreeConfirmations =>
        /\ chain_query.current_block = chain_query.receipt.block_number + 2
              => ~chain_status.confirmed
        /\ chain_query.current_block = chain_query.receipt.block_number + 3
              => chain_status.confirmed

\* C21: with required_confirmations = 3 and a receipt in block B the
\* transaction is not confirmed while the current block is below B+2 and is
\* confirmed from B+2 on, the receipt's block being the first confirmation.
C21_ConfirmedAtBPlus2 ==
    C21_ThreeConfirmations =>
        (chain_status.confirmed <=>
            chain_query.current_block >= chain_query.receipt.block_number + 2)

\* the query at current block B+2
C21_Witness ==
    /\ C21_ThreeConfirmations
    /\ chain_query.current_block = chain_query.receipt.block_number + 2
    /\ chain_status.confirmed

\* no Approve record is in the store
C22_NoApproveRecord ==
    \A i \in DOMAIN store : store[i].tx_type # "Approve"

\* C22: init_wallet in SEND mode returns an error when the token balance is
\* zero, and otherwise an error when the native balance is zero; in both
\* cases no record has been inserted and no allowance query or Approve
\* transaction has been made.
C22_ZeroBalanceRejected ==
    /\ wread.glm = 0 => wpc = "done" /\ wresult = InsufficientGlm
    /\ wread.glm > 0 /\ wread.eth = 0 => wpc = "done" /\ wresult = InsufficientEth
    /\ wresult = InsufficientGlm => wread.glm = 0 /\ wread.eth = NotRead
    /\ wresult = InsufficientEth => wread.glm > 0 /\ wread.eth = 0
    /\ wresult \in {InsufficientGlm, InsufficientEth} =>
          /\ wqueries = 0
          /\ wread.allowance = NotRead
          /\ C22_NoApproveRecord

\* init_wallet has rejected a wallet that holds tokens and no native currency
C22_Witness ==
    /\ wpc = "done"
    /\ wresult = InsufficientEth
    /\ wread.glm > 0

\* the Approve records of the store
C23_ApproveRecords ==
    {i \in DOMAIN store : store[i].tx_type = "Approve"}

\* C23: approve_multi_payment_contract, when no call of the node fails,
\* inserts exactly one Approve record, in status Created, when the queried
\* allowance is below the threshold, and inserts none and returns success at
\* once when the allowance is at or above it or no contract is configured.
C23_OneApproveWhenBelowThreshold ==
    /\ Cardinality(C23_ApproveRecords) <= 1
    /\ \A i \in C23_ApproveRecords : store[i].status = "Created"
    /\ (wread.allowance # NotRead /\ wread.allowance < GLM_MINIMUM_ALLOWANCE
           /\ (wpc = "poll" \/ wresult = "ok"))
          => Cardinality(C23_ApproveRecords) = 1
    /\ (wread.allowance >= GLM_MINIMUM_ALLOWANCE \/ wread.contract = 0)
          => /\ wpc = "done" /\ wresult = "ok"
             /\ C23_ApproveRecords = {}
             /\ wqueries <= 1 /\ welapsed = 0
    /\ C23_ApproveRecords # {}
          => wread.allowance # NotRead /\ wread.allowance < GLM_MINIMUM_ALLOWANCE

\* the Approve record is in the store and the wait for the allowance has begun
C23_Witness ==
    /\ wpc = "poll"
    /\ Cardinality(C23_ApproveRecords) = 1
    /\ wread.allowance = GLM_MINIMUM_ALLOWANCE - 1

C25_OneClientPerUrl ==
    \A u \in RpcUrls : Len(ginserts[u]) <= 1

RECURSIVE from_big_endian(_)
\* the number a big-endian byte string denotes
from_big_endian(bytes) ==
    IF bytes = <<>> THEN 0
    ELSE from_big_endian(SubSeq(bytes, 1, Len(bytes) - 1)) * ByteRange + bytes[Len(bytes)]

\* C26: every packed word decodes back to its pair: bytes 0..20 are the
\* receiver and bytes 20..32 the amount, big-endian (amounts below 2^96).
C26_PackedWordRoundTrip ==
    mt_tx # NoQuery =>
        \A i \in DOMAIN mt_tx.packed :
            /\ Len(mt_tx.packed[i]) = WordLen
            /\ SubSeq(mt_tx.packed[i], 1, AddrLen) = mt_call.receivers[i]
            /\ from_big_endian(SubSeq(mt_tx.packed[i], AddrLen + 1, WordLen))
                   = mt_call.amounts[i]

\* a word that packs an amount of more than three bytes
C26_Witness ==
    /\ mt_tx # NoQuery
    /\ \E i \in DOMAIN mt_tx.packed :
          /\ mt_call.amounts[i] = 16777217
          /\ mt_call.receivers[i][2] = 20
          /\ mt_tx.packed[i][29] = 1 /\ mt_tx.packed[i][32] = 1

\* C27: the call is golemTransferDirectPacked(packed) when the nonce is even
\* and golemTransferIndirectPacked(packed, sum) when it is odd, sum being the
\* sum of all amounts.
C27_MethodByNonceParity ==
    mt_tx # NoQuery =>
        IF mt_call.nonce % 2 = 0
        THEN mt_tx.method = "golemTransferDirectPacked" /\ mt_tx.sum = NoPrice
        ELSE /\ mt_tx.method = "golemTransferIndirectPacked"
             /\ mt_tx.sum = mt_call.amounts[1]
                    + (IF Len(mt_call.amounts) >= 2 THEN mt_call.amounts[2] ELSE 0)
                    + (IF Len(mt_call.amounts) >= 3 THEN mt_call.amounts[3] ELSE 0)

\* an indirect call with two amounts
C27_Witness ==
    /\ mt_tx # NoQuery
    /\ mt_call.nonce = 3
    /\ Len(mt_call.amounts) = 2
    /\ mt_tx.sum = 65536 + 255

\* C28: a first send (no current_gas_price, a starting_gas_price) is priced
\* at max(network_price, starting_gas_price), lowered to max_gas_price when
\* that is set and smaller; a later send of a record that is not in
\* ResendAndBumpGas is priced at the stored current_gas_price.
C28_FirstAndLaterPrice ==
    gas_call # NoQuery =>
        LET t == gas_call.t
            highest == IF gas_call.network_price >= t.starting_gas_price
                       THEN gas_call.network_price ELSE t.starting_gas_price
        IN  /\ (t.current_gas_price = NoPrice /\ t.starting_gas_price # NoPrice) =>
                  /\ t.max_gas_price = NoPrice => gas_result = highest
                  /\ (t.max_gas_price # NoPrice /\ t.max_gas_price >= highest)
                        => gas_result = highest
                  /\ (t.max_gas_price # NoPrice /\ t.max_gas_price < highest)
                        => gas_result = t.max_gas_price
            /\ (t.current_gas_price # NoPrice /\ t.status # "ResendAndBumpGas") =>
                  gas_result = t.current_gas_price

\* a first send whose price was lowered to max_gas_price
C28_Witness ==
    /\ gas_call # NoQuery
    /\ gas_call.t.current_gas_price = NoPrice
    /\ gas_call.t.max_gas_price # NoPrice
    /\ gas_call.network_price > gas_call.t.max_gas_price
    /\ gas_result = gas_call.t.max_gas_price

\* the rungs of the configured ladder
C30_Rungs ==
    {convert_float_gas_to_u256(PolygonLadder[i]) : i \in DOMAIN PolygonLadder}

\* C30: in static mode the bumped price is the lowest rung of the configured
\* ladder above the 11% floor of the previous price, and the floor itself
\* when no rung is above it.
C30_StaticBumpNextRung ==
    (/\ gas_call # NoQuery
     /\ gas_price_method = "static"
     /\ gas_call.t.current_gas_price # NoPrice
     /\ gas_call.t.status = "ResendAndBumpGas") =>
        LET floor == (gas_call.t.current_gas_price * min_bump_num) \div min_bump_den
            above == {r \in C30_Rungs : r > floor}
        IN  IF above = {} THEN gas_result = floor
            ELSE gas_result \in above /\ \A r \in above : gas_result <= r

\* priority fast, previous price 30.01 gwei: the bump is 40.01 gwei
C30_Witness ==
    /\ gas_call # NoQuery
    /\ gas_price_method = "static" /\ polygon_priority = "fast"
    /\ gas_call.t.status = "ResendAndBumpGas"
    /\ gas_call.t.current_gas_price = 3001
    /\ gas_result = 4001

\* C29: every record created by make_transfer or make_multi_transfer keeps
\* starting_gas_price <= current_gas_price once current_gas_price is set,
\* whatever send passes have handled it.
C29_StartingAtMostCurrent ==
    \A id \in DOMAIN store :
        (/\ store[id].tx_type \in {"Transfer", "MultiTransfer"}
         /\ store[id].starting_gas_price # NoPrice
         /\ store[id].current_gas_price # NoPrice) =>
            store[id].starting_gas_price <= store[id].current_gas_price

\* a record priced by its first send above the price it was created with
C29_Witness ==
    \E id \in DOMAIN store :
        /\ store[id].tx_type \in {"Transfer", "MultiTransfer"}
        /\ store[id].starting_gas_price # NoPrice
        /\ store[id].current_gas_price # NoPrice
        /\ store[id].current_gas_price > store[id].starting_gas_price
        /\ store[id].resent_times = 0

\* C31: in dynamic mode a bump is never lowered to max_gas_price: a record
\* in ResendAndBumpGas is priced at the 11% floor of its previous price
\* (previous * 111 / 100) even when that floor exceeds its max_gas_price.
C31_DynamicBumpIgnoresMax ==
    (/\ gas_call # NoQuery
     /\ gas_price_method = "dynamic"
     /\ gas_call.t.current_gas_price # NoPrice
     /\ gas_call.t.status = "ResendAndBumpGas") =>
        gas_result = (gas_call.t.current_gas_price * min_bump_num) \div min_bump_den

\* a record priced within its max_gas_price whose bump exceeds it
C31_Witness ==
    /\ gas_call # NoQuery
    /\ gas_price_method = "dynamic"
    /\ gas_call.t.status = "ResendAndBumpGas"
    /\ gas_call.t.max_gas_price # NoPrice
    /\ gas_call.t.current_gas_price # NoPrice
    /\ gas_call.t.current_gas_price <= gas_call.t.max_gas_price
    /\ gas_result > gas_call.t.max_gas_price

\* C32: a pass dropped after update_tx_fields and before the broadcast leaves
\* the record in the status it had and with the persisted price, and the next
\* broadcast of the record is made at exactly that persisted price.
C32_ResumedAtPersistedPrice ==
    [][\A p \in Passes :
          /\ (pc[p] = "send" /\ pc'[p] = "idle") =>
                /\ store'[tx[p].tx_id].status = tx[p].status
                /\ store'[tx[p].tx_id].current_gas_price = raw_tx[p]
          /\ (pc[p] = "send" /\ pc'[p] = "result" /\ cancelled[tx[p].tx_id] # NoPrice) =>
                raw_tx[p] = cancelled[tx[p].tx_id]]_vars

\* C32 for the records that are not in ResendAndBumpGas when the pass is dropped
C32_ResumedUnlessStalled ==
    [][\A p \in Passes :
          (/\ pc[p] = "send" /\ pc'[p] = "result"
           /\ cancelled[tx[p].tx_id] # NoPrice
           /\ tx[p].status # "ResendAndBumpGas") =>
                raw_tx[p] = cancelled[tx[p].tx_id]]_vars

\* C33: when send_tx returns a hash, the hash is appended to the hashes the
\* record already has (it is the only hash when there was none), the status
\* becomes Sent and current_gas_price becomes the price of the broadcast;
\* send passes run one at a time.
C33_SuccessRecorded ==
    [][\A p \in Passes :
          (pc[p] = "result" /\ send_result[p] = "ok" /\ pc'[p] = "loop") =>
             LET id == tx[p].tx_id
                 hash == TxHash(id, raw_tx[p])
             IN  /\ store[id].tmp_onchain_txs = <<>> => store'[id].tmp_onchain_txs = <<hash>>
                 /\ store[id].tmp_onchain_txs # <<>> =>
                       store'[id].tmp_onchain_txs = store[id].tmp_onchain_txs \o <<hash>>
                 /\ store'[id].status = "Sent"
                 /\ store'[id].current_gas_price = raw_tx[p]]_vars

\* a record broadcast before, sent again with success: two hashes, the last
\* one at the stored price
C33_Witness ==
    \E id \in DOMAIN store :
        /\ store[id].status = "Sent"
        /\ Len(store[id].tmp_onchain_txs) = 2
        /\ store[id].tmp_onchain_txs[2] = TxHash(id, store[id].current_gas_price)
        /\ store[id].tmp_onchain_txs[1] # store[id].tmp_onchain_txs[2]

\* C34: verify_tx returns an error and no PaymentDetails when the receipt is
\* missing, when the receipt has no log, or when the first log does not have
\* exactly three topics; when the hash parses and the node answers with a
\* receipt whose first log has three topics, sender and recipient are the
\* addresses of topics 1 and 2 and the amount is the big-endian value of the
\* log data.
C34_VerifyTxDecodes ==
    vt_call # NoQuery =>
        LET a == vt_call.answer
            r == vt_result
            failed == "err" \in DOMAIN r /\ "sender" \notin DOMAIN r
        IN  /\ (a.ok /\ ~a.present) => failed
            /\ (a.present /\ a.logs = <<>>) => failed
            /\ (a.present /\ a.logs # <<>> /\ Len(a.logs[1].topics) # 3) => failed
            /\ (/\ vt_call.tx_hash_valid
                 /\ a.present /\ a.logs # <<>> /\ Len(a.logs[1].topics) = 3) =>
                    /\ "err" \notin DOMAIN r
                    /\ \A i \in 1..AddrLen :
                          /\ r.sender[i] = a.logs[1].topics[2][TopicLen - AddrLen + i]
                          /\ r.recipient[i] = a.logs[1].topics[3][TopicLen - AddrLen + i]
                    /\ Len(r.sender) = AddrLen /\ Len(r.recipient) = AddrLen
                    /\ r.amount.digits = from_big_endian(a.logs[1].data)

\* details decoded from the first of two logs: different sender and
\* recipient, an amount of two bytes
C34_Witness ==
    /\ vt_call # NoQuery
    /\ "sender" \in DOMAIN vt_result
    /\ Len(vt_call.answer.logs) = 2
    /\ vt_result.sender # vt_result.recipient
    /\ vt_result.amount.digits = 256

\* C35: when the sender parses, the node reports a balance and the blob
\* deserializes, has_enough_eth_for_gas returns an error exactly when
\* gas * gas_price of the record's raw transaction is strictly greater than
\* the balance, and returns that cost otherwise; no call changes a record.
C35_ErrorIffCostExceedsBalance ==
    /\ [](eg_call # NoQuery =>
            LET cost == eg_call.db_tx.encoded.gas * eg_call.db_tx.encoded.gas_price
            IN  (/\ eg_call.sender_valid
                 /\ eg_call.eth_balance # NoPrice
                 /\ eg_call.db_tx.encoded.valid) =>
                    /\ ("err" \in DOMAIN eg_result) <=> (cost > eg_call.eth_balance)
                    /\ "err" \in DOMAIN eg_result => eg_result.err = NotEnoughEth
                    /\ "ok" \in DOMAIN eg_result => eg_result.ok.digits = cost)
    /\ [][store' = store]_vars

\* a balance that just covers the gas cost is accepted
C35_Witness ==
    /\ eg_call # NoQuery
    /\ "ok" \in DOMAIN eg_result
    /\ eg_call.eth_balance > 0
    /\ eg_call.eth_balance = eg_call.db_tx.encoded.gas * eg_call.db_tx.encoded.gas_price

\* C36: the step in which the guard skips a record changes no record and
\* broadcasts nothing, and the record is not in the rest of the list, so
\* the pass leaves it as it found it.
C36_SkippedUntouched ==
    [][\A p \in Passes :
          (/\ pc[p] = "loop" /\ pc'[p] = "loop"
           /\ txs[p] # <<>> /\ txs'[p] = Tail(txs[p])
           /\ Head(txs[p]).encoded.valid) =>
              /\ store' = store
              /\ sent_log' = sent_log
              /\ \A k \in DOMAIN txs'[p] : txs'[p][k].tx_id # Head(txs[p]).tx_id]_vars

\* a pass that has broadcast one record and skipped another, which is still
\* as it was created
C36_Witness ==
    \E p \in Passes : \E id \in DOMAIN store :
        /\ pc[p] = "loop"
        /\ Len(sent_log[p]) = 1
        /\ sent_log[p][1][1] # id
        /\ skipped[id] # NoPrice
        /\ store[id].status = "Created"
        /\ store[id].current_gas_price = NoPrice
        /\ store[id].signature = NoPrice

\* C37: in every state of a sequence of send passes, a record whose
\* current_gas_price is set has a stored blob that deserializes to a raw
\* transaction with that gas price.
C37_BlobPriceIsCurrentPrice ==
    \A id \in DOMAIN store :
        store[id].current_gas_price # NoPrice =>
            /\ store[id].encoded.valid
            /\ store[id].encoded.gas_price = store[id].current_gas_price

\* a record sent for the first time at the node's price, above the price in
\* the blob it was created with
C37_Witness ==
    \E id \in DOMAIN store :
        /\ store[id].status = "Sent"
        /\ store[id].resent_times = 0
        /\ Len(store[id].tmp_onchain_txs) = 1
        /\ store[id].current_gas_price > store[id].starting_gas_price
        /\ store[id].encoded = EncodeRawTx(store[id].current_gas_price)

\* C38: a broadcast that fails (nonce too low, already known, any other
\* error) does not end the pass: the pass goes on with the rest of its list;
\* a failure of address parsing, of the gas price lookup or of signing ends
\* the pass at once, changes no record and leaves the rest of the list
\* unvisited.
C38_OnlyPreBroadcastFailuresAbort ==
    [][\A p \in Passes :
          /\ (pc[p] = "result" /\ pc'[p] # "result") =>
                /\ pc'[p] = "loop"
                /\ txs'[p] = Tail(txs[p])
          /\ (pc[p] = "loop" /\ txs[p] # <<>> /\ pc'[p] = "idle") =>
                /\ store' = store
                /\ txs'[p] = <<>>]_vars

\* a pass whose first broadcast failed and whose second one succeeded
C38_Witness ==
    \E p \in Passes :
        /\ Len(sent_log[p]) = 2
        /\ pc[p] = "loop"
        /\ store[sent_log[p][1][1]].status \in {"ErrorSent", "NonceTooLow", "ResendAndBumpGas"}
        /\ store[sent_log[p][1][1]].current_gas_price = sent_log[p][1][2]
        /\ store[sent_log[p][2][1]].status = "Sent"
        /\ sent_log[p][1][1] # sent_log[p][2][1]

\* C39: in every result of get_tx_on_chain_status, confirmed implies
\* exists_on_chain and not pending; pending implies exists_on_chain, not
\* confirmed and not succeeded; succeeded implies exists_on_chain; and a hash
\* with neither receipt nor transaction gives all four flags false.
C39_FlagsConsistent ==
    chain_status # NoStatus =>
        /\ chain_status.confirmed =>
              chain_status.exists_on_chain /\ ~chain_status.pending
        /\ chain_status.pending =>
              /\ chain_status.exists_on_chain
              /\ ~chain_status.confirmed
              /\ ~chain_status.succeeded
        /\ chain_status.succeeded => chain_status.exists_on_chain
        /\ (~chain_query.receipt.present /\ chain_query.transaction = NoPrice) =>
              /\ ~chain_status.exists_on_chain
              /\ ~chain_status.pending
              /\ ~chain_status.confirmed
              /\ ~chain_status.succeeded

\* a transaction the node knows without a receipt: pending
C39_Witness ==
    /\ chain_status # NoStatus
    /\ ~chain_query.receipt.present
    /\ chain_query.transaction # NoPrice
    /\ chain_status.pending
    /\ chain_status.exists_on_chain

\* C40: concurrent get_client calls never deadlock: every call ends, no
\* task holds a guard of the client map while it builds its client or waits
\* for the write guard, a call that ends after a hit or after its insert has
\* a client, and the map then has the entry of the URL it asked for.
C40_NoDeadlockOneEntry ==
    /\ \A t \in Tasks : (gpc[t] # "idle") ~> (gpc[t] = "done")
    /\ [](\A t \in Tasks : gpc[t] \in {"create", "write"} => gguard[t] = "none")
    /\ [][\A t \in Tasks :
            (gpc[t] \in {"read", "insert"} /\ gpc'[t] = "done") =>
                /\ gclient'[t] # NoClient
                /\ client_map'[gurl[t]] # NoClient]_vars
    /\ [](\A t \in Tasks :
            (gpc[t] = "done" /\ gclient[t] # NoClient) => client_map[gurl[t]] # NoClient)

\* three calls for one URL have all ended with a client, two of them after
\* missing the cache
C40_Witness ==
    /\ \A t \in Tasks : gpc[t] = "done" /\ gclient[t] # NoClient
    /\ \A t, u \in Tasks : gurl[t] = gurl[u]
    /\ \E u \in RpcUrls : Len(ginserts[u]) = 2

====
